---- MODULE Spec2Model ----
(***************************************************************************)
(* A model of @orbinum/proof-generator: the field codec (public-signal and *)
(* proof hex helpers of utils.ts), the generateProof pipeline of index.ts  *)
(* in its two revisions, and generateDisclosureProof of disclosure.ts.     *)
(*                                                                         *)
(* JavaScript strings are sequences of one-character strings.  A BigInt is *)
(* a record [neg, mag]: a sign and the magnitude's bytes, most significant *)
(* first, without leading zeros (zero is the empty sequence),              *)
(* so that values far beyond 32 bits (the 254-bit field prime, 2^256) are  *)
(* exact.  A call that throws yields [ok |-> FALSE, err |-> message], the   *)
(* message a sequence of strings; one that returns, [ok |-> TRUE, val].    *)
(***************************************************************************)
EXTENDS Integers, Sequences, FiniteSets, TLC

(***************************************************************************)
(* JavaScript primitives used by the source                                *)
(***************************************************************************)

HexChars == << "0", "1", "2", "3", "4", "5", "6", "7",
               "8", "9", "a", "b", "c", "d", "e", "f" >>

UpperHexChars == << "0", "1", "2", "3", "4", "5", "6", "7",
                    "8", "9", "A", "B", "C", "D", "E", "F" >>

DecChars == << "0", "1", "2", "3", "4", "5", "6", "7", "8", "9" >>

IsLowerHexChar(c) == \E d \in 1..16 : HexChars[d] = c

IsHexChar(c) == \E d \in 1..16 : HexChars[d] = c \/ UpperHexChars[d] = c

IsDecChar(c) == \E d \in 1..10 : DecChars[d] = c

\* The digit a hex character stands for (either case).
HexVal(c) == (CHOOSE d \in 1..16 : HexChars[d] = c \/ UpperHexChars[d] = c) - 1

DecVal(c) == (CHOOSE d \in 1..10 : DecChars[d] = c) - 1

Ok(v) == [ok |-> TRUE, val |-> v]

Throw(e) == [ok |-> FALSE, err |-> e]

\* String.prototype.startsWith('0x')
StartsWith0x(s) == Len(s) >= 2 /\ s[1] = "0" /\ s[2] = "x"

\* String.prototype.slice(2)
Slice2(s) == IF Len(s) <= 2 THEN << >> ELSE SubSeq(s, 3, Len(s))

\* String.prototype.substr(i, 2), i counted from 0
Substr2(s, i) == SubSeq(s, i + 1, IF i + 2 <= Len(s) THEN i + 2 ELSE Len(s))

\* String.prototype.padStart(n, '0')
PadStart0(s, n) ==
  IF Len(s) >= n THEN s ELSE [i \in 1..(n - Len(s)) |-> "0"] \o s

\* The loop  for (i = hex.length - 2; i >= 0; i -= 2) bytes.push(hex.substr(i, 2))
\* followed by bytes.join(''): the two-character groups of hex, last group first.
RECURSIVE ReversePairsFrom(_, _)
ReversePairsFrom(hex, i) ==
  IF i < 0 THEN << >> ELSE Substr2(hex, i) \o ReversePairsFrom(hex, i - 2)

ReversePairs(hex) == ReversePairsFrom(hex, Len(hex) - 2)

(***************************************************************************)
(* BigInt arithmetic on base-256 digit sequences (bytes, most significant  *)
(* first).  Decimal text is read and written six digits at a time, which   *)
(* keeps every intermediate product below 2^31.                            *)
(***************************************************************************)

RECURSIVE StripZeros(_)
StripZeros(m) ==
  IF m # << >> /\ m[1] = 0 THEN StripZeros(Tail(m)) ELSE m

MkBig(neg, m) ==
  LET s == StripZeros(m) IN [neg |-> (neg /\ s # << >>), mag |-> s]

BigZero == [neg |-> FALSE, mag |-> << >>]

Pow10 == << 1, 10, 100, 1000, 10000, 100000, 1000000 >>

\* m * k + c, byte by byte from the least significant end.  (The tests on Len
\* make the evaluator compute each accumulator before the next step.)
RECURSIVE MulAddFrom(_, _, _, _, _)
MulAddFrom(m, k, i, carry, acc) ==
  IF i = 0
  THEN IF carry = 0 THEN acc
       ELSE LET hi == << carry \div 65536, (carry \div 256) % 256, carry % 256 >>
            IN  StripZeros(hi) \o acc
  ELSE LET t == m[i] * k + carry
           next == << t % 256 >> \o acc
       IN  IF Len(next) > 0 THEN MulAddFrom(m, k, i - 1, t \div 256, next) ELSE next

MulAdd(m, k, c) == MulAddFrom(m, k, Len(m), c, << >>)

\* long division of m by k: <<quotient, remainder>>
RECURSIVE DivModFrom(_, _, _, _, _)
DivModFrom(m, k, i, rem, acc) ==
  IF i > Len(m)
  THEN << StripZeros(acc), rem >>
  ELSE LET t == rem * 256 + m[i]
           next == Append(acc, t \div k)
       IN  IF Len(next) > 0 THEN DivModFrom(m, k, i + 1, t % k, next) ELSE << next, 0 >>

DivMod(m, k) == DivModFrom(m, k, 1, 0, << >>)

\* -1, 0, 1 as the magnitude a is below, equal to or above b
RECURSIVE CmpFrom(_, _, _)
CmpFrom(a, b, i) ==
  IF i > Len(a) THEN 0
  ELSE IF a[i] < b[i] THEN -1
  ELSE IF a[i] > b[i] THEN 1
  ELSE CmpFrom(a, b, i + 1)

CmpMag(a, b) ==
  IF Len(a) < Len(b) THEN -1
  ELSE IF Len(a) > Len(b) THEN 1
  ELSE CmpFrom(a, b, 1)

\* a < b on BigInts
BigLess(a, b) ==
  IF a.neg /\ ~b.neg THEN TRUE
  ELSE IF ~a.neg /\ b.neg THEN FALSE
  ELSE IF a.neg THEN CmpMag(a.mag, b.mag) = 1
  ELSE CmpMag(a.mag, b.mag) = -1

\* BigInt(number) for a small integer
RECURSIVE NatMag(_)
NatMag(n) == IF n = 0 THEN << >> ELSE Append(NatMag(n \div 256), n % 256)

BigOfInt(n) == IF n < 0 THEN MkBig(TRUE, NatMag(-n)) ELSE MkBig(FALSE, NatMag(n))

\* the number written by the decimal digits s[lo..hi] (at most six of them)
RECURSIVE SmallDec(_, _, _)
SmallDec(s, lo, hi) ==
  IF lo > hi THEN 0 ELSE SmallDec(s, lo, hi - 1) * 10 + DecVal(s[hi])

RECURSIVE ParseDecFrom(_, _, _)
ParseDecFrom(s, i, acc) ==
  IF i > Len(s) THEN acc
  ELSE LET n == ((Len(s) - i) % 6) + 1
           next == MulAdd(acc, Pow10[n + 1], SmallDec(s, i, i + n - 1))
       IN  IF Len(next) >= 0 THEN ParseDecFrom(s, i + n, next) ELSE next

\* the bytes written by an even number of hex digits
HexPairsToBytes(h) ==
  [i \in 1..(Len(h) \div 2) |-> 16 * HexVal(h[2 * i - 1]) + HexVal(h[2 * i])]

HexToMag(h) ==
  HexPairsToBytes(IF Len(h) % 2 = 1 THEN << "0" >> \o h ELSE h)

\* BigInt(string): '0x' + hex digits, or decimal digits with an optional '-';
\* anything else is a SyntaxError
BigIntOfString(s) ==
  IF StartsWith0x(s)
  THEN IF Len(s) > 2 /\ \A i \in 3..Len(s) : IsHexChar(s[i])
       THEN Ok(MkBig(FALSE, HexToMag(Slice2(s))))
       ELSE Throw(<< "SyntaxError: Cannot convert to a BigInt" >>)
  ELSE IF s = << >> THEN Ok(BigZero)
  ELSE IF s[1] = "-"
  THEN IF Len(s) > 1 /\ \A i \in 2..Len(s) : IsDecChar(s[i])
       THEN Ok(MkBig(TRUE, ParseDecFrom(s, 2, << >>)))
       ELSE Throw(<< "SyntaxError: Cannot convert to a BigInt" >>)
  ELSE IF \A i \in 1..Len(s) : IsDecChar(s[i])
  THEN Ok(MkBig(FALSE, ParseDecFrom(s, 1, << >>)))
  ELSE Throw(<< "SyntaxError: Cannot convert to a BigInt" >>)

\* two lowercase hex digits per byte
MagToHex(m) ==
  [i \in 1..(2 * Len(m)) |->
     IF i % 2 = 1 THEN HexChars[(m[(i + 1) \div 2] \div 16) + 1]
                  ELSE HexChars[(m[i \div 2] % 16) + 1]]

RECURSIVE StripZeroChars(_)
StripZeroChars(s) ==
  IF Len(s) > 1 /\ s[1] = "0" THEN StripZeroChars(Tail(s)) ELSE s

\* BigInt.prototype.toString(16)
BigToString16(b) ==
  (IF b.neg THEN << "-" >> ELSE << >>) \o
  (IF b.mag = << >> THEN << "0" >> ELSE StripZeroChars(MagToHex(b.mag)))

\* n below 10^6 as six decimal digits
SixDigits(n) == [i \in 1..6 |-> DecChars[((n \div Pow10[7 - i]) % 10) + 1]]

RECURSIVE DecDigitsOf(_, _)
DecDigitsOf(m, acc) ==
  IF m = << >> THEN acc
  ELSE LET qr == DivMod(m, Pow10[7])
           next == SixDigits(qr[2]) \o acc
       IN  IF Len(next) > 0 THEN DecDigitsOf(qr[1], next) ELSE next

\* BigInt.prototype.toString() / toString(10)
BigToString10(b) ==
  (IF b.neg THEN << "-" >> ELSE << >>) \o
  (IF b.mag = << >> THEN << "0" >> ELSE StripZeroChars(DecDigitsOf(b.mag, << >>)))

\* const BN254_PRIME = BigInt('2188...8583')
BN254_PRIME ==
  BigIntOfString(
  << "2", "1", "8", "8", "8", "2", "4", "2", "8", "7", "1", "8", "3", "9", "2", "7", "5", "2", "2", "2",
     "2", "4", "6", "4", "0", "5", "7", "4", "5", "2", "5", "7", "2", "7", "5", "0", "8", "8", "6", "9",
     "6", "3", "1", "1", "1", "5", "7", "2", "9", "7", "8", "2", "3", "6", "6", "2", "6", "8", "9", "0",
     "3", "7", "8", "9", "4", "6", "4", "5", "2", "2", "6", "2", "0", "8", "5", "8", "3" >>).val

(***************************************************************************)
(* JavaScript values as the helpers see them (typeof)                      *)
(***************************************************************************)

JsString(s) == [t |-> "string", s |-> s]

JsBigInt(b) == [t |-> "bigint", b |-> b]

\* an integral number (the model holds no fractions and no NaN)
JsNumber(n) == [t |-> "number", n |-> n]

\* a Uint8Array
JsBytes(a) == [t |-> "bytes", a |-> a]

\* f over a list, as Array.prototype.map does with a callback that may throw:
\* the first element whose result is a throw ends the whole map with it
MapThrowing(rs) ==
  IF \E i \in 1..Len(rs) : ~rs[i].ok
  THEN Throw(rs[CHOOSE i \in 1..Len(rs) :
                  ~rs[i].ok /\ \A j \in 1..(i - 1) : rs[j].ok].err)
  ELSE Ok([i \in 1..Len(rs) |-> rs[i].val])

(***************************************************************************)
(* src/utils.ts: public-signal helpers                                     *)
(***************************************************************************)

HexWidth == 64

ProofHexChars == 256

\* the conversion both signal encoders start with: value -> bigIntValue
ToBigIntValue(value) ==
  IF value.t = "string" THEN BigIntOfString(value.s)
  ELSE IF value.t = "bigint" THEN Ok(value.b)
  ELSE Ok(BigOfInt(value.n))

\* the same hex without the byte reversal: what the wire format must not be
BigEndianHex(bigIntValue) ==
  << "0", "x" >> \o PadStart0(BigToString16(bigIntValue), HexWidth)

\* '0x' + the byte-reversed, 64-padded hex of bigIntValue
LittleEndianHex(bigIntValue) ==
  << "0", "x" >> \o ReversePairs(PadStart0(BigToString16(bigIntValue), HexWidth))

\* an encoder that leaves the bytes in big-endian order
formatBigEndian(value) ==
  LET bigIntValue == ToBigIntValue(value)
  IN  IF ~bigIntValue.ok THEN bigIntValue
      ELSE Ok(BigEndianHex(bigIntValue.val))

formatPublicSignal(value) ==
  LET bigIntValue == ToBigIntValue(value)
  IN  IF ~bigIntValue.ok THEN bigIntValue
      ELSE Ok(LittleEndianHex(bigIntValue.val))

\* a decoder that reads the hex as it stands, without reversing the bytes
ParseWithoutReversal(signalHex) ==
  LET cleanHex == IF StartsWith0x(signalHex) THEN Slice2(signalHex) ELSE signalHex
      parsed == BigIntOfString(<< "0", "x" >> \o cleanHex)
  IN  IF ~parsed.ok THEN parsed ELSE Ok(BigToString10(parsed.val))

parsePublicSignal(signalHex) ==
  LET cleanHex == IF StartsWith0x(signalHex) THEN Slice2(signalHex) ELSE signalHex
      bigEndianHex == ReversePairs(cleanHex)
      parsed == BigIntOfString(<< "0", "x" >> \o bigEndianHex)
  IN  IF ~parsed.ok THEN parsed ELSE Ok(BigToString10(parsed.val))

\* utils.ts (earlier revision): signals.map(s => formatPublicSignal(s))
formatPublicSignalsArrayUnchecked(signals) ==
  MapThrowing([i \in 1..Len(signals) |-> formatPublicSignal(signals[i])])

parsePublicSignalsArray(signalsHex) ==
  MapThrowing([i \in 1..Len(signalsHex) |-> parsePublicSignal(signalsHex[i])])

\* the callback of formatPublicSignalsArray: one signal, range-checked
FormatCheckedSignal(value) ==
  LET bigIntValue == ToBigIntValue(value)
  IN  IF ~bigIntValue.ok THEN bigIntValue
      ELSE IF BigLess(bigIntValue.val, BigZero) \/ ~BigLess(bigIntValue.val, BN254_PRIME)
      THEN Throw(<< "Value out of BN254 field range" >>)
      ELSE Ok(LittleEndianHex(bigIntValue.val))

formatPublicSignalsArray(signals) ==
  MapThrowing([i \in 1..Len(signals) |-> FormatCheckedSignal(signals[i])])

\* a count check that lets every list through
AcceptAnyCount(signals, expected) == Ok(TRUE)

validatePublicSignals(signals, expected) ==
  IF Len(signals) # expected
  THEN Throw(<< "Invalid public signals count" >>)
  ELSE Ok(TRUE)

validateProofSize(proofHex) ==
  LET cleanHex == IF StartsWith0x(proofHex) THEN Slice2(proofHex) ELSE proofHex
  IN  IF Len(cleanHex) # ProofHexChars
      THEN Throw(<< "Invalid proof size: expected 256 hex chars (128 bytes)" >>)
      ELSE Ok(TRUE)

(***************************************************************************)
(* src/utils.ts: validateInputs                                            *)
(***************************************************************************)

JsNull == [t |-> "null"]

JsUndefined == [t |-> "undefined"]

JsArray(a) == [t |-> "array", a |-> a]

\* an object literal: its own enumerable entries << key, value >>, in order
JsObject(entries) == [t |-> "object", entries |-> entries]

\* !value
Falsy(v) ==
  \/ v.t \in {"null", "undefined"}
  \/ v.t = "string" /\ v.s = << >>
  \/ v.t = "number" /\ v.n = 0

\* typeof value === 'object'
TypeofObject(v) == v.t \in {"object", "array", "null", "bytes"}

\* Object.entries(value) of an object or an array
ObjectEntries(v) ==
  IF v.t = "object" THEN v.entries
  ELSE IF v.t = "array" THEN [i \in 1..Len(v.a) |-> << "index", v.a[i] >>]
  ELSE << >>

\* an input check that lets every value through
AcceptAnyInputs(inputs) == Ok(TRUE)

validateInputs(inputs) ==
  IF Falsy(inputs) \/ ~TypeofObject(inputs)
  THEN Throw(<< "Inputs must be an object" >>)
  ELSE LET es == ObjectEntries(inputs)
           bad == {i \in 1..Len(es) : es[i][2].t \in {"undefined", "null"}}
       IN  IF bad # {}
           THEN LET first == CHOOSE i \in bad : \A j \in bad : i <= j
                IN  Throw(<< "Input ", es[first][1], " is undefined or null" >>)
           ELSE Ok(TRUE)

(***************************************************************************)
(* types.ts and the three revisions of circuits.ts                         *)
(***************************************************************************)

CircuitType == {"unshield", "transfer", "disclosure"}

getExpectedPublicSignals(circuitType) ==
  CASE circuitType = "unshield" -> 5
    [] circuitType = "transfer" -> 5
    [] circuitType = "disclosure" -> 4

\* a file path: directory, circuit name, extension
Path(dir, circuitName, ext) == [dir |-> dir, circuit |-> circuitName, ext |-> ext]

\* fs.existsSync
existsSync(files, p) == p \in files

\* circuits.ts with CIRCUIT_CONFIGS (artifacts downloaded to ../circuits)
getCircuitConfigStatic(circuitType) ==
  [ name |-> circuitType,
    wasmPath |-> Path("circuits", circuitType, "wasm"),
    provingKeyPath |-> Path("circuits", circuitType, "ark"),
    expectedPublicSignals |-> getExpectedPublicSignals(circuitType) ]

validateCircuitArtifactsStatic(config, files) ==
  IF ~existsSync(files, config.wasmPath) THEN Throw(<< "WASM not found" >>)
  ELSE IF ~existsSync(files, config.provingKeyPath)
  THEN Throw(<< "Proving key not found" >>)
  ELSE Ok(TRUE)

\* the candidate directories of the installed circuits package, in search order
SearchDirs == << "root", "artifacts", "pkg" >>

\* circuits.ts resolving the artifacts of the installed npm package: the first
\* directory that holds all three artifacts
getPackageCircuitPaths(circuitName, e) ==
  IF e.package = "none"
  THEN Throw(<< "Cannot resolve @orbinum/circuits package" >>)
  ELSE LET hit == {i \in 1..Len(SearchDirs) :
                     /\ existsSync(e.files, Path(SearchDirs[i], circuitName, "wasm"))
                     /\ existsSync(e.files, Path(SearchDirs[i], circuitName, "ark"))
                     /\ existsSync(e.files, Path(SearchDirs[i], circuitName, "zkey"))}
       IN  IF hit = {}
           THEN Throw(<< "Circuit artifacts not found. Searched directories: ",
                         "root", "artifacts", "pkg" >>)
           ELSE LET dir == SearchDirs[CHOOSE i \in hit : \A j \in hit : i <= j]
                IN  Ok([ wasm |-> Path(dir, circuitName, "wasm"),
                         ark |-> Path(dir, circuitName, "ark"),
                         zkey |-> Path(dir, circuitName, "zkey") ])

getCircuitConfigPackage(circuitType, e) ==
  LET paths == getPackageCircuitPaths(circuitType, e)
  IN  IF ~paths.ok THEN paths
      ELSE Ok([ name |-> circuitType,
                wasmPath |-> paths.val.wasm,
                zkeyPath |-> paths.val.zkey,
                provingKeyPath |-> paths.val.ark,
                expectedPublicSignals |-> getExpectedPublicSignals(circuitType) ])

validateCircuitArtifacts(config, files) ==
  IF ~existsSync(files, config.wasmPath) THEN Throw(<< "WASM not found" >>)
  ELSE IF ~existsSync(files, config.provingKeyPath)
  THEN Throw(<< "Proving key not found" >>)
  ELSE IF ~existsSync(files, config.zkeyPath) THEN Throw(<< "zkey not found" >>)
  ELSE Ok(TRUE)

(***************************************************************************)
(* Bounded inputs and the outcomes of the external collaborators           *)
(***************************************************************************)

\* the longest public-signal list the prover returns in the model
MaxSignals == 6

\* how many different starting points the prover's lists take in SignalPool
NumOffsets == 4

\* how far the compressor's strings stray from the expected length
ProofSlack == 2

Rep(c, n) == [i \in 1..n |-> c]

DecOfInt(n) == BigToString10(BigOfInt(n))

PrimeMinusOne == MkBig(FALSE, [BN254_PRIME.mag EXCEPT ![32] = @ - 1])

PrimePlusOne == MkBig(FALSE, [BN254_PRIME.mag EXCEPT ![32] = @ + 1])

TwoTo256 == MkBig(FALSE, << 1 >> \o Rep(0, 32))

TwoTo256MinusOne == MkBig(FALSE, Rep(255, 32))

\* decimal strings a prover may hand back as public signals: field elements
\* first, then values outside the field
SignalPool ==
  << DecOfInt(123), DecOfInt(456), DecOfInt(256), DecOfInt(789), DecOfInt(0),
     BigToString10(PrimeMinusOne), BigToString10(BN254_PRIME), DecOfInt(100),
     DecOfInt(-1), BigToString10(TwoTo256) >>

SignalList(len, off) ==
  [i \in 1..len |-> JsString(SignalPool[((off + i - 2) % Len(SignalPool)) + 1])]

SignalLists ==
  {SignalList(len, off) : len \in 3..MaxSignals, off \in 1..NumOffsets}

\* the names of each circuit's public inputs, in public-signal order
PublicInputNames(circuitType) ==
  CASE circuitType = "unshield" ->
         << "merkle_root", "nullifier", "amount", "recipient", "asset_id" >>
    [] circuitType = "transfer" ->
         << "merkle_root", "input_nullifier_1", "input_nullifier_2",
            "output_commitment_1", "output_commitment_2" >>
    [] circuitType = "disclosure" ->
         << "commitment", "revealed_value", "revealed_asset_id",
            "revealed_owner_hash" >>

HasEntry(inputs, key) ==
  \E i \in 1..Len(inputs.entries) : inputs.entries[i][1] = key

EntryOf(inputs, key) ==
  inputs.entries[CHOOSE i \in 1..Len(inputs.entries) : inputs.entries[i][1] = key][2]

\* what a sound circuit yields: the public inputs it was given, in order
EchoedSignals(circuitType, inputs) ==
  LET names == PublicInputNames(circuitType)
  IN  IF inputs.t = "object" /\ \A i \in 1..Len(names) : HasEntry(inputs, names[i])
      THEN {[i \in 1..Len(names) |-> EntryOf(inputs, names[i])]}
      ELSE {}

\* snarkjs.groth16.fullProve: it throws, or returns a native proof and any list
\* of public signals; it cannot succeed without the two files it reads
FullProveOutcomes(circuitType, inputs, wasmPath, zkeyPath, files) ==
  {Throw(<< "Error: Assert Failed" >>)} \cup
  IF existsSync(files, wasmPath) /\ existsSync(files, zkeyPath)
  THEN {Ok([proof |-> "pi_a pi_b pi_c", publicSignals |-> l]) :
          l \in SignalLists \cup EchoedSignals(circuitType, inputs)}
  ELSE {}

\* compressSnarkjsProofWasm: it throws, or returns any string
CompressorStrings ==
  { << "0", "x" >> \o Rep("a", ProofHexChars),
    Rep("a", ProofHexChars),
    << "0", "x" >> \o Rep("A", ProofHexChars),
    << "0", "x" >> \o Rep("g", ProofHexChars),
    << "0", "x" >> \o Rep("a", ProofHexChars - ProofSlack),
    << "0", "x" >> \o Rep("a", ProofHexChars + ProofSlack),
    << "0", "x" >> }

CompressOutcomes ==
  {Throw(<< "compression failed" >>)} \cup {Ok(c) : c \in CompressorStrings}

\* the arkworks WASM module: generate_proof_wasm throws, or returns JSON with a
\* proof and public signals of its own making
WasmSignalList(len) ==
  [i \in 1..len |-> << "0", "x" >> \o Rep(HexChars[i + 1], HexWidth)]

WasmProveOutcomes ==
  {Throw(<< "WASM proof generation failed: ", "unreachable" >>)} \cup
  {Ok([proof |-> << "0", "x" >> \o Rep("b", ProofHexChars),
       publicSignals |-> WasmSignalList(len)]) : len \in 3..MaxSignals}

\* snarkjs.wtns.calculate and exportJson, as calculateWitness uses them
WitnessOutcomes ==
  {Throw(<< "Error: Assert Failed" >>), Ok([witness |-> << "1", "2", "3" >>])}

\* the artifacts on disk: all three files of every circuit in directory dir
AllIn(dir) == {Path(dir, c, e) : c \in CircuitType, e \in {"wasm", "ark", "zkey"}}

\* the environments a call may find.  package: the circuits package that
\* require.resolve finds; wasmBuilt: groth16-proof can be imported
EnvChoices ==
  { [package |-> "none", files |-> {}, wasmBuilt |-> FALSE],
    [package |-> "@orbinum/circuits",
     files |-> AllIn("root") \cup AllIn("circuits"), wasmBuilt |-> TRUE],
    [package |-> "orbinum-circuits", files |-> AllIn("pkg"), wasmBuilt |-> FALSE],
    [package |-> "@orbinum/circuits",
     files |-> {f \in AllIn("artifacts") \cup AllIn("circuits") : f.ext # "zkey"},
     wasmBuilt |-> TRUE],
    [package |-> "@orbinum/circuits",
     files |-> {f \in AllIn("root") : f.ext = "wasm"} \cup
               {f \in AllIn("pkg") \cup AllIn("circuits") : f.ext # "wasm"},
     wasmBuilt |-> TRUE],
    [package |-> "@orbinum/circuits",
     files |-> {f \in AllIn("artifacts") : f.circuit # "disclosure"},
     wasmBuilt |-> FALSE] }

Str3(a, b, c) == JsString(<< a, b, c >>)

\* the inputs argument of generateProof
InputChoices ==
  { JsNull,
    JsUndefined,
    JsString(<< "x" >>),
    JsObject(<< << "merkle_root", JsNull >> >>),
    JsObject(<< << "merkle_root", Str3("1", "2", "3") >>,
                << "nullifier", JsUndefined >> >>),
    JsObject(<< << "merkle_root", Str3("1", "2", "3") >>,
                << "nullifier", Str3("4", "5", "6") >>,
                << "amount", Str3("1", "0", "0") >>,
                << "recipient", Str3("7", "8", "9") >>,
                << "asset_id", JsString(<< "0" >>) >>,
                << "note_value", Str3("1", "0", "0") >> >>) }

(***************************************************************************)
(* State                                                                   *)
(***************************************************************************)

VARIABLES
  env,         \* what is installed: circuits package, files on disk, WASM build
  wasmModule,  \* wasm-loader.ts: the module-level wasmModule, "null" or "loaded"
  pc,          \* where the running generateProof call stands
  call,        \* its arguments
  config,      \* its circuit config
  native,      \* what the prover (or the witness calculator) gave it
  compressed,  \* what the compressor gave it
  outcome,     \* how the call settled
  events,      \* the external effects of the call, in the order they happened
  dpc,         \* where the running generateDisclosureProof call stands
  dcall,       \* its arguments
  dposeidon,   \* the hasher buildPoseidon resolved to
  dinputs,     \* the circuit inputs it built
  dresult,     \* what generateProof gave it
  doutcome,    \* how the call settled
  devents,     \* its external effects, in order
  dgenerate,   \* the arguments it called generateProof with
  lib,         \* the last call of a pure helper: what went in, what came out
  clock,       \* Date.now()
  tmp,         \* the witness files under /tmp: what each path holds
  wpc,         \* where each calculateWitness call stands
  winputs,     \* its inputs
  wtnsPath,    \* its temporary path
  wresult,     \* how it settled
  loadPc,      \* where each call into wasm-loader.ts stands
  loadCall,    \* which function it called, and its local `wasm`
  loadResult,  \* how it settled
  initLog,     \* the initialisation work done so far, in order
  wasmBuild    \* what the groth16-proof module exports in this environment

pipeVars == << env, wasmModule, pc, call, config, native, compressed, outcome, events >>

discVars == << dpc, dcall, dposeidon, dinputs, dresult, doutcome, devents, dgenerate >>

witVars == << clock, tmp, wpc, winputs, wtnsPath, wresult >>

loadVars == << loadPc, loadCall, loadResult, initLog, wasmBuild >>

vars == << env, wasmModule, pc, call, config, native, compressed, outcome, events,
           dpc, dcall, dposeidon, dinputs, dresult, doutcome, devents, dgenerate,
           lib,
           clock, tmp, wpc, winputs, wtnsPath, wresult,
           loadPc, loadCall, loadResult, initLog, wasmBuild >>

Nothing == [t |-> "nothing"]

Pending == [kind |-> "pending"]

Returned(v) == [kind |-> "returned", value |-> v]

\* a thrown Error: the name of its class and its message
\* an error that has lost its class on the way out
ThrownAsPlainError(name, message) ==
  [kind |-> "thrown", name |-> "Error", message |-> message]

Thrown(name, message) == [kind |-> "thrown", name |-> name, message |-> message]

PipeIdle ==
  /\ wasmModule = "null"
  /\ pc = "idle"
  /\ call = Nothing
  /\ config = Nothing
  /\ native = Nothing
  /\ compressed = Nothing
  /\ outcome = Pending
  /\ events = << >>

DiscIdle ==
  /\ dpc = "idle"
  /\ dcall = Nothing
  /\ dposeidon = Nothing
  /\ dinputs = Nothing
  /\ dresult = Nothing
  /\ doutcome = Pending
  /\ devents = << >>
  /\ dgenerate = Nothing

\* the calculateWitness calls that may be in flight together
Procs == {"call 1", "call 2"}

\* the latest millisecond Date.now() reaches in the model
MaxClock == 2

\* the temporary paths: /tmp/witness_<ms>.wtns, one per millisecond
WtnsPaths == 0..MaxClock

WitIdle ==
  /\ clock = 0
  /\ tmp = [path \in WtnsPaths |-> Nothing]
  /\ wpc = [p \in Procs |-> "idle"]
  /\ winputs = [p \in Procs |-> Nothing]
  /\ wtnsPath = [p \in Procs |-> Nothing]
  /\ wresult = [p \in Procs |-> Pending]

\* the module as wasm-pack builds it for bundlers and browsers: a default
\* export that instantiates it, and init_panic_hook
WebBuild == [hasDefault |-> TRUE, hasPanicHook |-> TRUE]

LoadIdle ==
  /\ loadPc = [p \in Procs |-> "idle"]
  /\ loadCall = [p \in Procs |-> Nothing]
  /\ loadResult = [p \in Procs |-> Pending]
  /\ initLog = << >>
  /\ wasmBuild = WebBuild

Init ==
  /\ env \in EnvChoices
  /\ PipeIdle
  /\ DiscIdle
  /\ lib = Nothing
  /\ WitIdle
  /\ LoadIdle

\* the call settles: pc, outcome; everything else of the pipeline stays
Settle(o) ==
  /\ pc' = "done"
  /\ outcome' = o

(***************************************************************************)
(* src/index.ts: generateProof over snarkjs.groth16.fullProve              *)
(***************************************************************************)

GenerateProof(circuitType, inputs, validateArtifacts) ==
  /\ pc = "idle"
  /\ call' = [ revision |-> "snarkjs", circuitType |-> circuitType,
               inputs |-> inputs, validateArtifacts |-> validateArtifacts ]
  /\ pc' = "getCircuitConfig"
  /\ UNCHANGED << env, wasmModule, config, native, compressed, outcome, events >>
  /\ UNCHANGED << discVars, lib, witVars, loadVars >>

\* Step 1: getCircuitConfig resolves the package and probes its directories;
\* what it throws leaves generateProof as it is
GetCircuitConfig ==
  /\ pc = "getCircuitConfig"
  /\ LET c == getCircuitConfigPackage(call.circuitType, env)
     IN  /\ events' = events \o
                      IF env.package = "none" THEN << "require.resolve" >>
                      ELSE << "require.resolve", "fs.existsSync" >>
         /\ IF c.ok
            THEN /\ config' = c.val
                 /\ pc' = "validateInputs"
                 /\ UNCHANGED outcome
            ELSE /\ Settle(Thrown("Error", c.err))
                 /\ UNCHANGED config
  /\ UNCHANGED << env, wasmModule, call, native, compressed >>
  /\ UNCHANGED << discVars, lib, witVars, loadVars >>

\* Step 2
ValidateInputs ==
  /\ pc = "validateInputs"
  /\ LET v == validateInputs(call.inputs)
     IN  IF v.ok
         THEN /\ pc' = "validateArtifacts"
              /\ UNCHANGED outcome
         ELSE Settle(Thrown("InvalidInputsError", v.err))
  /\ UNCHANGED << env, wasmModule, call, config, native, compressed, events >>
  /\ UNCHANGED << discVars, lib, witVars, loadVars >>

\* Step 3, skipped when options.validateArtifacts is false
ValidateArtifacts ==
  /\ pc = "validateArtifacts"
  /\ IF call.validateArtifacts
     THEN LET v == validateCircuitArtifacts(config, env.files)
          IN  /\ events' = events \o << "fs.existsSync" >>
              /\ IF v.ok
                 THEN /\ pc' = "fullProve"
                      /\ UNCHANGED outcome
                 ELSE Settle(Thrown("CircuitNotFoundError",
                                    << "Circuit not found: ", call.circuitType >>))
     ELSE /\ pc' = "fullProve"
          /\ UNCHANGED << outcome, events >>
  /\ UNCHANGED << env, wasmModule, call, config, native, compressed >>
  /\ UNCHANGED << discVars, lib, witVars, loadVars >>

\* a Step 4 that calls the prover a second time when the first call throws
FullProveWithRetry ==
  /\ pc = "fullProve"
  /\ \E r \in FullProveOutcomes(call.circuitType, call.inputs,
                                config.wasmPath, config.zkeyPath, env.files) :
       /\ events' = events \o << "snarkjs.groth16.fullProve" >>
       /\ IF r.ok
          THEN /\ native' = r.val
               /\ pc' = "compress"
               /\ UNCHANGED outcome
          ELSE IF events[Len(events)] # "snarkjs.groth16.fullProve"
          THEN UNCHANGED << pc, native, outcome >>
          ELSE /\ Settle(Thrown("ProofGenerationError", r.err))
               /\ UNCHANGED native
  /\ UNCHANGED << env, wasmModule, call, config, compressed >>
  /\ UNCHANGED << discVars, lib, witVars, loadVars >>

\* Step 4, first await: snarkjs.groth16.fullProve
FullProve ==
  /\ pc = "fullProve"
  /\ \E r \in FullProveOutcomes(call.circuitType, call.inputs,
                                config.wasmPath, config.zkeyPath, env.files) :
       /\ events' = events \o << "snarkjs.groth16.fullProve" >>
       /\ IF r.ok
          THEN /\ native' = r.val
               /\ pc' = "compress"
               /\ UNCHANGED outcome
          ELSE /\ Settle(Thrown("ProofGenerationError", r.err))
               /\ UNCHANGED native
  /\ UNCHANGED << env, wasmModule, call, config, compressed >>
  /\ UNCHANGED << discVars, lib, witVars, loadVars >>

\* Step 4, second await: compressSnarkjsProofWasm
CompressProof ==
  /\ pc = "compress"
  /\ \E r \in CompressOutcomes :
       /\ events' = events \o << "compressSnarkjsProofWasm" >>
       /\ IF r.ok
          THEN /\ compressed' = r.val
               /\ pc' = "finish"
               /\ UNCHANGED outcome
          ELSE /\ Settle(Thrown("ProofGenerationError", r.err))
               /\ UNCHANGED compressed
  /\ UNCHANGED << env, wasmModule, call, config, native >>
  /\ UNCHANGED << discVars, lib, witVars, loadVars >>

\* the rest of Step 4, Step 5 and the return
FinishProof ==
  /\ pc = "finish"
  /\ LET size == validateProofSize(compressed)
         publicSignalsHex == formatPublicSignalsArray(native.publicSignals)
     IN  Settle(IF ~size.ok THEN Thrown("ProofGenerationError", size.err)
                ELSE IF ~publicSignalsHex.ok
                THEN Thrown("ProofGenerationError", publicSignalsHex.err)
                ELSE LET count == validatePublicSignals(publicSignalsHex.val,
                                                        config.expectedPublicSignals)
                     IN  IF ~count.ok
                         THEN Thrown("ProofGenerationError", count.err)
                         ELSE Returned([ proof |-> compressed,
                                         publicSignals |-> publicSignalsHex.val,
                                         circuitType |-> call.circuitType ]))
  /\ UNCHANGED << env, wasmModule, call, config, native, compressed, events >>
  /\ UNCHANGED << discVars, lib, witVars, loadVars >>

\* the caller has the settled promise; the next call starts afresh, with the
\* module-level state as the call left it
CallerContinues ==
  /\ pc = "done"
  /\ pc' = "idle"
  /\ call' = Nothing
  /\ config' = Nothing
  /\ native' = Nothing
  /\ compressed' = Nothing
  /\ outcome' = Pending
  /\ events' = << >>
  /\ UNCHANGED << env, wasmModule >>
  /\ UNCHANGED << discVars, lib, witVars, loadVars >>

(***************************************************************************)
(* src/index.ts: generateProof over calculateWitness and the arkworks WASM *)
(* prover (wasm-loader.ts, witness.ts, circuits.ts with CIRCUIT_CONFIGS)   *)
(***************************************************************************)

GenerateProofWitness(circuitType, inputs, validateArtifacts) ==
  /\ pc = "idle"
  /\ call' = [ revision |-> "witness", circuitType |-> circuitType,
               inputs |-> inputs, validateArtifacts |-> validateArtifacts ]
  /\ pc' = "initWasm"
  /\ UNCHANGED << env, wasmModule, config, native, compressed, outcome, events >>
  /\ UNCHANGED << discVars, lib, witVars, loadVars >>

\* Step 0: await initWasm(); idempotent once the module is loaded
InitWasm ==
  /\ pc = "initWasm"
  /\ IF wasmModule = "loaded"
     THEN /\ pc' = "validate"
          /\ UNCHANGED << wasmModule, outcome, events >>
     ELSE /\ events' = events \o << "import groth16-proof" >>
          /\ IF env.wasmBuilt
             THEN /\ wasmModule' = "loaded"
                  /\ pc' = "validate"
                  /\ UNCHANGED outcome
             ELSE /\ Settle(Thrown("Error", << "Failed to initialize WASM module: ",
                                              "Cannot find module" >>))
                  /\ UNCHANGED wasmModule
  /\ UNCHANGED << env, call, config, native, compressed >>
  /\ UNCHANGED << discVars, lib, witVars, loadVars >>

\* Steps 1 to 3, up to the next await
ValidateCall ==
  /\ pc = "validate"
  /\ LET c == getCircuitConfigStatic(call.circuitType)
         v == validateInputs(call.inputs)
         f == validateCircuitArtifactsStatic(c, env.files)
     IN  /\ config' = c
         /\ IF ~v.ok
            THEN /\ Settle(Thrown("InvalidInputsError", v.err))
                 /\ UNCHANGED events
            ELSE IF ~call.validateArtifacts
            THEN /\ pc' = "calculateWitness"
                 /\ UNCHANGED << outcome, events >>
            ELSE /\ events' = events \o << "fs.existsSync" >>
                 /\ IF f.ok
                    THEN /\ pc' = "calculateWitness"
                         /\ UNCHANGED outcome
                    ELSE Settle(Thrown("CircuitNotFoundError",
                                       << "Circuit not found: ", call.circuitType >>))
  /\ UNCHANGED << env, wasmModule, call, native, compressed >>
  /\ UNCHANGED << discVars, lib, witVars, loadVars >>

\* Step 4: calculateWitness; snarkjs needs the circuit's WASM file
CalculateWitness ==
  /\ pc = "calculateWitness"
  /\ \E r \in WitnessOutcomes :
       /\ r.ok => existsSync(env.files, config.wasmPath)
       /\ events' = events \o << "snarkjs.wtns.calculate" >>
       /\ IF r.ok
          THEN /\ native' = r.val
               /\ pc' = "generateProofWasm"
               /\ UNCHANGED outcome
          ELSE /\ Settle(Thrown("WitnessCalculationError", r.err))
               /\ UNCHANGED native
  /\ UNCHANGED << env, wasmModule, call, config, compressed >>
  /\ UNCHANGED << discVars, lib, witVars, loadVars >>

\* Step 5: read the proving key, generateProofWasm; Step 6 and the return
GenerateProofWasm ==
  /\ pc = "generateProofWasm"
  /\ IF ~existsSync(env.files, config.provingKeyPath)
     THEN /\ events' = events \o << "fs.readFile" >>
          /\ UNCHANGED native
          /\ Settle(Thrown("ProofGenerationError", << "ENOENT" >>))
     ELSE \E r \in WasmProveOutcomes :
            /\ events' = events \o << "fs.readFile", "generate_proof_wasm" >>
            /\ native' = IF r.ok THEN r.val ELSE native
            /\ Settle(IF ~r.ok THEN Thrown("ProofGenerationError", r.err)
                      ELSE LET count == validatePublicSignals(r.val.publicSignals,
                                                              config.expectedPublicSignals)
                           IN  IF ~count.ok
                               THEN Thrown("ProofGenerationError", count.err)
                               ELSE Returned([ proof |-> r.val.proof,
                                               publicSignals |-> r.val.publicSignals,
                                               circuitType |-> call.circuitType ]))
  /\ UNCHANGED << env, wasmModule, call, config, compressed >>
  /\ UNCHANGED << discVars, lib, witVars, loadVars >>

Next ==
  \/ \E circuitType \in CircuitType, inputs \in InputChoices, va \in BOOLEAN :
       \/ GenerateProof(circuitType, inputs, va)
       \/ GenerateProofWitness(circuitType, inputs, va)
  \/ GetCircuitConfig
  \/ ValidateInputs
  \/ ValidateArtifacts
  \/ FullProve
  \/ CompressProof
  \/ FinishProof
  \/ InitWasm
  \/ ValidateCall
  \/ CalculateWitness
  \/ GenerateProofWasm
  \/ CallerContinues

Spec == Init /\ [][Next]_vars

(***************************************************************************)
(* What the claims speak of, stated apart from the code's own helpers      *)
(***************************************************************************)

Succeeded == pc = "done" /\ outcome.kind = "returned"

FailedWith(name) == pc = "done" /\ outcome.kind = "thrown" /\ outcome.name = name

\* the values directly under inputs
DirectValues(inputs) ==
  IF inputs.t = "object" THEN {inputs.entries[i][2] : i \in 1..Len(inputs.entries)}
  ELSE IF inputs.t = "array" THEN {inputs.a[i] : i \in 1..Len(inputs.a)}
  ELSE {}

\* inputs is an object none of whose direct values is null or undefined
WellFormedInputs(inputs) ==
  /\ inputs.t \in {"object", "array", "bytes"}
  /\ \A v \in DirectValues(inputs) : v.t \notin {"null", "undefined"}

ExpectedCount(circuitType) == IF circuitType = "disclosure" THEN 4 ELSE 5

\* the prover has handed back a proof with public signals
ProverReturned == native # Nothing /\ "publicSignals" \in DOMAIN native

\* s without a leading '0x'
Unprefixed(s) == IF StartsWith0x(s) THEN SubSeq(s, 3, Len(s)) ELSE s

\* s matches /^0x[0-9a-f]{256}$/
MatchesProofPattern(s) ==
  /\ Len(s) = 258
  /\ s[1] = "0"
  /\ s[2] = "x"
  /\ \A i \in 3..258 : IsLowerHexChar(s[i])

\* byte k (k = 0 the least significant) of the natural number with magnitude m
ByteAt(m, k) == IF k < Len(m) THEN m[Len(m) - k] ELSE 0

\* the two lowercase hex characters of a byte
HexOfByte(b) == << HexChars[(b \div 16) + 1], HexChars[(b % 16) + 1] >>

\* hex is '0x' and the 32 bytes of the magnitude m, least significant first
IsLittleEndianOf(hex, m) ==
  /\ Len(hex) = 66
  /\ hex[1] = "0"
  /\ hex[2] = "x"
  /\ Len(m) <= 32
  /\ \A k \in 0..31 : << hex[2 * k + 3], hex[2 * k + 4] >> = HexOfByte(ByteAt(m, k))

(***************************************************************************)
(* generateProof: the claims                                               *)
(***************************************************************************)

\* C1: generateProof validates inputs before any other work: a call whose
\* inputs is null, undefined, not an object, or has a null or undefined direct
\* value ends with InvalidInputsError and without any artifact access, WASM
\* initialisation, prover call or compressor call.
C1_ValidatesInputsFirst ==
  (pc = "done" /\ ~WellFormedInputs(call.inputs))
    => (FailedWith("InvalidInputsError") /\ events = << >>)

\* C2: generateProof never returns a partial result: a call ends returned or
\* thrown and nothing else; a thrown call carries no proof and no signals; a
\* returned call has passed input validation, found its artifacts, proved,
\* compressed, and passed the proof-size and the signal-count checks.
C2_NoPartialResult ==
  /\ pc = "done" <=> outcome.kind \in {"returned", "thrown"}
  /\ pc # "done" => outcome = Pending
  /\ (pc = "done" /\ outcome.kind = "thrown")
       => DOMAIN outcome = {"kind", "name", "message"}
  /\ Succeeded =>
       /\ DOMAIN outcome.value = {"proof", "publicSignals", "circuitType"}
       /\ outcome.value.circuitType = call.circuitType
       /\ WellFormedInputs(call.inputs)
       /\ config.wasmPath \in env.files
       /\ ProverReturned
       /\ Len(outcome.value.publicSignals) = ExpectedCount(call.circuitType)
       /\ call.revision = "snarkjs" =>
            /\ config.zkeyPath \in env.files
            /\ "snarkjs.groth16.fullProve" \in {events[i] : i \in 1..Len(events)}
            /\ "compressSnarkjsProofWasm" \in {events[i] : i \in 1..Len(events)}
            /\ compressed # Nothing
            /\ Len(Unprefixed(compressed)) = 256
            /\ \A i \in 1..Len(native.publicSignals) :
                 LET n == BigIntOfString(native.publicSignals[i].s)
                 IN  n.ok /\ ~n.val.neg /\ BigLess(n.val, BN254_PRIME)

\* a call of the snarkjs revision has returned after every stage acted, with
\* the boundary signal PRIME - 1 among its signals
C2_Witness ==
  /\ Succeeded
  /\ call.revision = "snarkjs"
  /\ call.validateArtifacts
  /\ Len(events) = 5
  /\ \E i \in 1..Len(native.publicSignals) :
       native.publicSignals[i].s = BigToString10(PrimeMinusOne)

\* C3: on success publicSignals has the circuit's count, 5 for unshield and
\* transfer, 4 for disclosure; when the prover returns any other number of
\* signals the call fails with ProofGenerationError.
C3_SignalCount ==
  /\ Succeeded => Len(outcome.value.publicSignals) = ExpectedCount(call.circuitType)
  /\ ( /\ pc = "done"
       /\ ProverReturned
       /\ Len(native.publicSignals) # ExpectedCount(call.circuitType) )
       => FailedWith("ProofGenerationError")

\* a disclosure call whose prover returned five in-range signals and a
\* well-sized proof has failed on the count alone
C3_Witness ==
  /\ FailedWith("ProofGenerationError")
  /\ outcome.message = << "Invalid public signals count" >>
  /\ call.circuitType = "disclosure"
  /\ ProverReturned
  /\ Len(native.publicSignals) = 5

\* C4: on success the proof matches /^0x[0-9a-f]{256}$/ whatever the
\* compressor returned, and a compressor output of another form makes the call
\* fail with ProofGenerationError.
C4_ProofPattern ==
  /\ (Succeeded /\ call.revision = "snarkjs") => MatchesProofPattern(outcome.value.proof)
  /\ ( /\ pc = "done"
       /\ call.revision = "snarkjs"
       /\ compressed # Nothing
       /\ ~MatchesProofPattern(compressed) )
       => FailedWith("ProofGenerationError")

Bytes32 == 32

\* fieldElementToBytes32BE, for 0 <= n < 2^256: 32 bytes, most significant first
bigIntToBytes32(n) == [i \in 1..(Bytes32 - Len(n.mag)) |-> 0] \o n.mag

\* a reading of the 32 bytes with the least significant byte first
bytes32LittleEndian(bytes) ==
  MkBig(FALSE, [i \in 1..Len(bytes) |-> bytes[Len(bytes) + 1 - i]])

\* bytes32BEToFieldElement
bytes32ToBigInt(bytes) == MkBig(FALSE, bytes)

\* fieldToHexBE: '0x' and 64 hex characters, big-endian, no byte reversal
bigIntToHex(n) == << "0", "x" >> \o PadStart0(BigToString16(n), HexWidth)

\* decodeSignalLE, to a BigInt: strip '0x', pad to 64, reverse the byte pairs
hexSignalToBigInt(hex) ==
  LET cleanHex == IF StartsWith0x(hex) THEN Slice2(hex) ELSE hex
  IN  BigIntOfString(<< "0", "x" >> \o ReversePairs(PadStart0(cleanHex, HexWidth)))

\* a u64 as the decimal string snarkjs takes
u64ToFieldStr(v) == BigToString10(v)

(***************************************************************************)
(* The field codec, called on its own                                      *)
(***************************************************************************)

\* the highest byte position a one-byte value is placed at (0 the lowest)
MaxBytePos == 31

\* 0xab at byte position k
ByteAtPos(k) == MkBig(FALSE, << 171 >> \o Rep(0, k))

\* 0x01 0x02 ... as a number of len bytes
Ascending(len) == MkBig(FALSE, [i \in 1..len |-> i])

\* the numbers the codec is tried on
CodecNumbers ==
  {BigOfInt(n) : n \in {0, 1, 100, 255, 256, 999, 65535, -1, -255, -256}} \cup
  {ByteAtPos(k) : k \in 0..(MaxBytePos + 2)} \cup
  {Ascending(20), Ascending(31), PrimeMinusOne,
   BN254_PRIME, PrimePlusOne, TwoTo256MinusOne, TwoTo256}

\* 0 <= b < BN254_PRIME
InField(b) == ~b.neg /\ BigLess(b, BN254_PRIME)

FieldElements == {b \in CodecNumbers : InField(b)}

\* values outside the field: negative, the prime and above, 2^256 and above
OutOfField == CodecNumbers \ FieldElements

\* the forms a signal value arrives in: bigint, number, decimal or hex string
SignalValues ==
  {JsBigInt(b) : b \in FieldElements \cup OutOfField} \cup
  {JsNumber(n) : n \in {0, 100, 256, -1}} \cup
  {JsString(BigToString10(b)) :
     b \in {BigOfInt(100), PrimeMinusOne, BN254_PRIME, BigOfInt(-1)}} \cup
  {JsString(<< "0", "x" >> \o BigToString16(b)) :
     b \in {BigOfInt(256), PrimeMinusOne, TwoTo256}} \cup
  {JsString(<< "a", "b", "c" >>)}

\* lists of signal values for the array encoders
SignalValueLists ==
  { << JsBigInt(BigOfInt(100)), JsString(BigToString10(PrimeMinusOne)) >>,
    << JsBigInt(BigOfInt(256)), JsBigInt(BN254_PRIME), JsBigInt(BigOfInt(1)) >>,
    << JsNumber(-1) >>,
    << JsBigInt(BigOfInt(1)), JsBigInt(TwoTo256) >>,
    << >> }

\* 32-byte arrays
ByteArrays ==
  {Rep(0, Bytes32), Rep(255, Bytes32), [i \in 1..Bytes32 |-> i],
   [i \in 1..Bytes32 |-> 8 * (Bytes32 - i)]} \cup
  {[i \in 1..Bytes32 |-> IF i = Bytes32 - k THEN 171 ELSE 0] : k \in 0..MaxBytePos}

\* the BigInt a signal value stands for, whatever its form
ValueOf(v) == ToBigIntValue(v)

InBytes32(b) == ~b.neg /\ Len(b.mag) <= Bytes32

\* a helper was called: its name, its argument, its result, and the call before
\* it when its argument was that call's result
Called(fn, in, out, prev) == [fn |-> fn, in |-> in, out |-> out, prev |-> prev]

InitCodec ==
  /\ env = [package |-> "none", files |-> {}, wasmBuilt |-> FALSE]
  /\ PipeIdle
  /\ DiscIdle
  /\ lib = Nothing
  /\ WitIdle
  /\ LoadIdle

FormatPublicSignal(value) ==
  /\ lib' = Called("formatPublicSignal", value, formatPublicSignal(value), Nothing)
  /\ UNCHANGED << pipeVars, discVars, witVars, loadVars >>

\* parsePublicSignal on what formatPublicSignal has just returned
ParsePublicSignal ==
  /\ lib # Nothing
  /\ lib.fn = "formatPublicSignal"
  /\ lib.out.ok
  /\ lib' = Called("parsePublicSignal", lib.out.val, parsePublicSignal(lib.out.val),
                   [lib EXCEPT !.prev = Nothing])
  /\ UNCHANGED << pipeVars, discVars, witVars, loadVars >>

\* formatPublicSignalsArray with the range check
FormatPublicSignalsArray(signals) ==
  /\ lib' = Called("formatPublicSignalsArray", signals,
                   formatPublicSignalsArray(signals), Nothing)
  /\ UNCHANGED << pipeVars, discVars, witVars, loadVars >>

\* formatPublicSignalsArray of the revision that maps formatPublicSignal
FormatPublicSignalsArrayUnchecked(signals) ==
  /\ lib' = Called("formatPublicSignalsArrayUnchecked", signals,
                   formatPublicSignalsArrayUnchecked(signals), Nothing)
  /\ UNCHANGED << pipeVars, discVars, witVars, loadVars >>

\* parsePublicSignalsArray on what an array encoder has just returned
ParsePublicSignalsArray ==
  /\ lib # Nothing
  /\ lib.fn \in {"formatPublicSignalsArray", "formatPublicSignalsArrayUnchecked"}
  /\ lib.out.ok
  /\ lib' = Called("parsePublicSignalsArray", lib.out.val,
                   parsePublicSignalsArray(lib.out.val), [lib EXCEPT !.prev = Nothing])
  /\ UNCHANGED << pipeVars, discVars, witVars, loadVars >>

\* bigIntToHex of the BigInt formatPublicSignal has just encoded
BigIntToHex ==
  /\ lib # Nothing
  /\ lib.fn = "formatPublicSignal"
  /\ lib.in.t = "bigint"
  /\ lib' = Called("bigIntToHex", lib.in.b, Ok(bigIntToHex(lib.in.b)),
                   [lib EXCEPT !.prev = Nothing])
  /\ UNCHANGED << pipeVars, discVars, witVars, loadVars >>

\* bigIntToBytes32 of a fresh n, or of what bytes32ToBigInt has just returned
BigIntToBytes32 ==
  /\ \/ \E n \in {b \in FieldElements \cup OutOfField : InBytes32(b)} :
          lib' = Called("bigIntToBytes32", n, Ok(bigIntToBytes32(n)), Nothing)
     \/ /\ lib # Nothing
        /\ lib.fn = "bytes32ToBigInt"
        /\ lib' = Called("bigIntToBytes32", lib.out.val, Ok(bigIntToBytes32(lib.out.val)),
                         [lib EXCEPT !.prev = Nothing])
  /\ UNCHANGED << pipeVars, discVars, witVars, loadVars >>

\* bytes32ToBigInt of a fresh array, or of what bigIntToBytes32 has just returned
Bytes32ToBigInt ==
  /\ \/ \E b \in ByteArrays :
          lib' = Called("bytes32ToBigInt", b, Ok(bytes32ToBigInt(b)), Nothing)
     \/ /\ lib # Nothing
        /\ lib.fn = "bigIntToBytes32"
        /\ lib' = Called("bytes32ToBigInt", lib.out.val, Ok(bytes32ToBigInt(lib.out.val)),
                         [lib EXCEPT !.prev = Nothing])
  /\ UNCHANGED << pipeVars, discVars, witVars, loadVars >>

NextCodec ==
  \/ \E value \in SignalValues : FormatPublicSignal(value)
  \/ ParsePublicSignal
  \/ \E signals \in SignalValueLists :
       \/ FormatPublicSignalsArray(signals)
       \/ FormatPublicSignalsArrayUnchecked(signals)
  \/ ParsePublicSignalsArray
  \/ BigIntToHex
  \/ BigIntToBytes32
  \/ Bytes32ToBigInt

SpecCodec == InitCodec /\ [][NextCodec]_vars

(***************************************************************************)
(* The field codec: the claims                                             *)
(***************************************************************************)

LibCalled(fn) == lib # Nothing /\ lib.fn = fn

\* lib is a call of fn on the result of a call of before
LibChained(fn, before) ==
  LibCalled(fn) /\ lib.prev # Nothing /\ lib.prev.fn = before

\* a signal value that stands for a number outside the field
OutOfRange(v) == ValueOf(v).ok /\ ~InField(ValueOf(v).val)

\* C6: encoding a public signal whose value is negative or >= BN254_PRIME
\* always fails, whichever encoder is called: formatPublicSignal and both
\* revisions of formatPublicSignalsArray.
C6_OutOfRangeFails ==
  /\ (LibCalled("formatPublicSignal") /\ OutOfRange(lib.in)) => ~lib.out.ok
  /\ \A fn \in {"formatPublicSignalsArray", "formatPublicSignalsArrayUnchecked"} :
       (LibCalled(fn) /\ \E i \in 1..Len(lib.in) : OutOfRange(lib.in[i]))
         => ~lib.out.ok

\* C7: for every field element n, 0 <= n < BN254_PRIME, parsePublicSignal of
\* formatPublicSignal(n) is n as a decimal string.
C7_RoundTrip ==
  ( /\ LibChained("parsePublicSignal", "formatPublicSignal")
    /\ ValueOf(lib.prev.in).ok
    /\ InField(ValueOf(lib.prev.in).val) )
    => /\ lib.out.ok
       /\ \A i \in 1..Len(lib.out.val) : IsDecChar(lib.out.val[i])
       /\ BigIntOfString(lib.out.val) = Ok(ValueOf(lib.prev.in).val)

\* PRIME - 1 has been encoded and decoded again
C7_Witness ==
  /\ LibChained("parsePublicSignal", "formatPublicSignal")
  /\ lib.prev.in = JsBigInt(PrimeMinusOne)
  /\ lib.out.ok

\* C8: the 32-byte big-endian helpers are mutually inverse: for every 32-byte
\* array b, bigIntToBytes32(bytes32ToBigInt(b)) = b; for every n in [0, 2^256),
\* bytes32ToBigInt(bigIntToBytes32(n)) = n, the array being 32 bytes long with
\* the most significant byte at index 0.
C8_BigEndianInverse ==
  /\ LibChained("bigIntToBytes32", "bytes32ToBigInt") => lib.out.val = lib.prev.in
  /\ LibChained("bytes32ToBigInt", "bigIntToBytes32") => lib.out.val = lib.prev.in
  /\ LibCalled("bigIntToBytes32") =>
       /\ Len(lib.out.val) = 32
       /\ \A i \in 1..32 : lib.out.val[i] = ByteAt(lib.in.mag, 32 - i)

\* 2^256 - 1, in the field or not, has gone to bytes and back
C8_Witness ==
  /\ LibChained("bytes32ToBigInt", "bigIntToBytes32")
  /\ lib.prev.in = TwoTo256MinusOne
  /\ lib.out.val = TwoTo256MinusOne

\* C9: the two hex conventions are not conflated: for every field element n
\* the 32 bytes of formatPublicSignal(n) are the 32 bytes of bigIntToHex(n) in
\* reversed order; for n = 256 the two differ, the first starting '0x0001',
\* the second ending '0100'.
C9_EndiannessDistinct ==
  (LibChained("bigIntToHex", "formatPublicSignal") /\ InField(lib.in)) =>
    LET le == lib.prev.out.val
        be == lib.out.val
    IN  /\ lib.prev.out.ok
        /\ Len(le) = 66
        /\ Len(be) = 66
        /\ \A k \in 0..31 :
             << le[2 * k + 3], le[2 * k + 4] >> = << be[65 - 2 * k], be[66 - 2 * k] >>
        /\ lib.in = BigOfInt(256) =>
             /\ le # be
             /\ SubSeq(le, 1, 6) = << "0", "x", "0", "0", "0", "1" >>
             /\ SubSeq(be, 63, 66) = << "0", "1", "0", "0" >>

\* 256 has been encoded both ways
C9_Witness ==
  /\ LibChained("bigIntToHex", "formatPublicSignal")
  /\ lib.in = BigOfInt(256)
  /\ lib.prev.out.ok
  /\ lib.prev.out.val # lib.out.val

(***************************************************************************)
(* disclosure.ts: generateDisclosureProof                                  *)
(***************************************************************************)

\* the notes a caller discloses from
Notes ==
  { [ value |-> BigOfInt(100),
      ownerPubkey |-> MkBig(FALSE, Rep(34, 32)),
      blinding |-> MkBig(FALSE, Rep(153, 32)),
      assetId |-> BigOfInt(7),
      commitment |-> MkBig(FALSE, << 1, 2, 3, 4 >> \o Rep(0, 28)) ],
    [ value |-> BigOfInt(0),
      ownerPubkey |-> BigOfInt(1),
      blinding |-> BigOfInt(0),
      assetId |-> BigOfInt(0),
      commitment |-> PrimeMinusOne ],
    [ value |-> MkBig(FALSE, Rep(255, 8)),
      ownerPubkey |-> PrimeMinusOne,
      blinding |-> BigOfInt(5),
      assetId |-> MkBig(FALSE, Rep(255, 3)),
      commitment |-> BigOfInt(256) ] }

Masks ==
  [discloseValue : BOOLEAN, discloseAssetId : BOOLEAN, discloseOwner : BOOLEAN]

\* the hashers buildPoseidon may resolve to: the test suite's stand-in, whose
\* output is always 999; one whose output is always the largest field element;
\* and one whose output depends on how many inputs it is given and on each
Hashers == {"mock", "top", "sponge"}

RECURSIVE AbsorbFrom(_, _)
\* the two low bytes of each input, one input after the other
AbsorbFrom(inputs, i) ==
  IF i > Len(inputs) THEN << >>
  ELSE << ByteAt(inputs[i].mag, 1), ByteAt(inputs[i].mag, 0) >> \o
       AbsorbFrom(inputs, i + 1)

\* F.toObject(poseidon(inputs)): a field element
PoseidonHash(poseidon, inputs) ==
  CASE poseidon = "mock" -> BigOfInt(999)
    [] poseidon = "top" -> PrimeMinusOne
    [] poseidon = "sponge" ->
         MkBig(FALSE, << 1 + Len(inputs) >> \o AbsorbFrom(inputs, 1))

\* buildPoseidon: it rejects, or resolves to a hasher
PoseidonOutcomes ==
  {Throw(<< "circomlibjs failed to load" >>)} \cup {Ok(h) : h \in Hashers}

\* a mask that accepts every flag combination
MaskNeverEmpty(mask) == FALSE

\* !mask.discloseValue && !mask.discloseAssetId && !mask.discloseOwner
MaskIsEmpty(mask) ==
  ~mask.discloseValue /\ ~mask.discloseAssetId /\ ~mask.discloseOwner

Flag(b) == IF b THEN << "1" >> ELSE << "0" >>

\* inputs whose revealed_* entries ignore the mask
buildUnmaskedInputs(value, ownerPubkey, blinding, assetId, commitment, mask, poseidon) ==
  LET viewingKey == PoseidonHash(poseidon, << ownerPubkey >>)
  IN
  JsObject(<<
    << "commitment", JsString(BigToString10(commitment)) >>,
    << "revealed_value", JsString(BigToString10(value)) >>,
    << "revealed_asset_id", JsString(BigToString10(assetId)) >>,
    << "revealed_owner_hash", JsString(BigToString10(viewingKey)) >>,
    << "value", JsString(u64ToFieldStr(value)) >>,
    << "asset_id", JsString(u64ToFieldStr(assetId)) >>,
    << "owner_pubkey", JsString(BigToString10(ownerPubkey)) >>,
    << "blinding", JsString(BigToString10(blinding)) >>,
    << "viewing_key", JsString(BigToString10(viewingKey)) >>,
    << "disclose_value", JsString(Flag(mask.discloseValue)) >>,
    << "disclose_asset_id", JsString(Flag(mask.discloseAssetId)) >>,
    << "disclose_owner", JsString(Flag(mask.discloseOwner)) >> >>)

\* the inputs object, once the hasher is there
buildCircuitInputs(value, ownerPubkey, blinding, assetId, commitment, mask, poseidon) ==
  LET viewingKey == PoseidonHash(poseidon, << ownerPubkey >>)
  IN
  JsObject(<<
    << "commitment", JsString(BigToString10(commitment)) >>,
    << "revealed_value",
       JsString(BigToString10(IF mask.discloseValue THEN value ELSE BigZero)) >>,
    << "revealed_asset_id",
       JsString(BigToString10(IF mask.discloseAssetId THEN assetId ELSE BigZero)) >>,
    << "revealed_owner_hash",
       JsString(BigToString10(IF mask.discloseOwner THEN viewingKey ELSE BigZero)) >>,
    << "value", JsString(u64ToFieldStr(value)) >>,
    << "asset_id", JsString(u64ToFieldStr(assetId)) >>,
    << "owner_pubkey", JsString(BigToString10(ownerPubkey)) >>,
    << "blinding", JsString(BigToString10(blinding)) >>,
    << "viewing_key", JsString(BigToString10(viewingKey)) >>,
    << "disclose_value", JsString(Flag(mask.discloseValue)) >>,
    << "disclose_asset_id", JsString(Flag(mask.discloseAssetId)) >>,
    << "disclose_owner", JsString(Flag(mask.discloseOwner)) >> >>)

\* the proof the test suite's provers hand back
MockProof == << "0", "x" >> \o [i \in 1..ProofHexChars |-> IF i % 2 = 1 THEN "a" ELSE "b"]

\* generateProof(CircuitType.Disclosure, inputs, ...), seen from its caller: it
\* throws one of its errors, or returns a result whose four signals are the
\* public inputs it was given, or four signals of the prover's own
GenerateProofOutcomes(inputs) ==
  { Thrown("ProofGenerationError", << "Error: Assert Failed" >>),
    Thrown("CircuitNotFoundError", << "Circuit not found: ", "disclosure" >>) } \cup
  { Returned([ proof |-> MockProof,
               publicSignals |-> sigs,
               circuitType |-> "disclosure" ]) :
      sigs \in { [i \in 1..4 |->
                    formatPublicSignal(EntryOf(inputs, PublicInputNames("disclosure")[i])).val],
                 [i \in 1..4 |-> LittleEndianHex(BigOfInt(i))],
                 [i \in 1..4 |-> << "0", "x", "z", "z" >>] } }

\* Number(bigint): exact for the small values asset ids are
NumberOfBigInt(b) ==
  IF Len(b.mag) <= 3
  THEN JsNumber((IF b.neg THEN -1 ELSE 1) *
                (ByteAt(b.mag, 2) * 65536 + ByteAt(b.mag, 1) * 256 + ByteAt(b.mag, 0)))
  ELSE [t |-> "number", nearest |-> b]

\* a decoder that reads the signals most significant byte first
RevealedDataBigEndianRead(mask, publicSignals) ==
  LET value == BigIntOfString(publicSignals[2])
      assetId == BigIntOfString(publicSignals[3])
      ownerHash == BigIntOfString(publicSignals[4])
      keys == {"commitment"} \cup
              (IF mask.discloseValue THEN {"value"} ELSE {}) \cup
              (IF mask.discloseAssetId THEN {"assetId"} ELSE {}) \cup
              (IF mask.discloseOwner THEN {"ownerHash"} ELSE {})
  IN  IF mask.discloseValue /\ ~value.ok THEN value
      ELSE IF mask.discloseAssetId /\ ~assetId.ok THEN assetId
      ELSE IF mask.discloseOwner /\ ~ownerHash.ok THEN ownerHash
      ELSE Ok([k \in keys |->
                 CASE k = "commitment" -> JsString(publicSignals[1])
                   [] k = "value" -> JsString(BigToString10(value.val))
                   [] k = "assetId" -> NumberOfBigInt(assetId.val)
                   [] k = "ownerHash" -> JsString(bigIntToHex(ownerHash.val))])

\* a decoder that fills in every field, whatever the mask says
RevealedDataAllFields(mask, publicSignals) ==
  LET value == hexSignalToBigInt(publicSignals[2])
      assetId == hexSignalToBigInt(publicSignals[3])
      ownerHash == hexSignalToBigInt(publicSignals[4])
  IN  IF ~value.ok THEN value
      ELSE IF ~assetId.ok THEN assetId
      ELSE IF ~ownerHash.ok THEN ownerHash
      ELSE Ok([k \in {"commitment", "value", "assetId", "ownerHash"} |->
                 CASE k = "commitment" -> JsString(publicSignals[1])
                   [] k = "value" -> JsString(BigToString10(value.val))
                   [] k = "assetId" -> NumberOfBigInt(assetId.val)
                   [] k = "ownerHash" -> JsString(bigIntToHex(ownerHash.val))])

\* revealedData: commitment always, the other fields only when disclosed
RevealedData(mask, publicSignals) ==
  LET value == hexSignalToBigInt(publicSignals[2])
      assetId == hexSignalToBigInt(publicSignals[3])
      ownerHash == hexSignalToBigInt(publicSignals[4])
      keys == {"commitment"} \cup
              (IF mask.discloseValue THEN {"value"} ELSE {}) \cup
              (IF mask.discloseAssetId THEN {"assetId"} ELSE {}) \cup
              (IF mask.discloseOwner THEN {"ownerHash"} ELSE {})
  IN  IF mask.discloseValue /\ ~value.ok THEN value
      ELSE IF mask.discloseAssetId /\ ~assetId.ok THEN assetId
      ELSE IF mask.discloseOwner /\ ~ownerHash.ok THEN ownerHash
      ELSE Ok([k \in keys |->
                 CASE k = "commitment" -> JsString(publicSignals[1])
                   [] k = "value" -> JsString(BigToString10(value.val))
                   [] k = "assetId" -> NumberOfBigInt(assetId.val)
                   [] k = "ownerHash" -> JsString(bigIntToHex(ownerHash.val))])

InitDisclosure ==
  /\ env = [package |-> "none", files |-> {}, wasmBuilt |-> FALSE]
  /\ PipeIdle
  /\ DiscIdle
  /\ lib = Nothing
  /\ WitIdle
  /\ LoadIdle

\* the options argument: a provider override or none, verbose or not
CallerOptions == [provider : {"undefined", "fakeProvider"}, verbose : {"undefined", "true"}]

\* an options object that leaves the provider out
OptionsWithoutProvider(options) ==
  [provider |-> "undefined", verbose |-> options.verbose]

\* { provider: options.provider, verbose: options.verbose }
ForwardedOptions(options) ==
  [provider |-> options.provider, verbose |-> options.verbose]

\* the call, up to its first await: the mask check and, past it, buildPoseidon()
GenerateDisclosureProof(note, mask, options) ==
  /\ dpc = "idle"
  /\ dcall' = note @@ [mask |-> mask, options |-> options]
  /\ IF MaskIsEmpty(mask)
     THEN /\ dpc' = "done"
          /\ doutcome' = Thrown("Error",
               << "DisclosureMask: at least one field ",
                  "(discloseValue, discloseAssetId, discloseOwner) must be true" >>)
          /\ UNCHANGED devents
     ELSE /\ dpc' = "buildPoseidon"
          /\ devents' = devents \o << "buildPoseidon" >>
          /\ UNCHANGED doutcome
  /\ UNCHANGED << dposeidon, dinputs, dresult, dgenerate >>
  /\ UNCHANGED << pipeVars, lib, witVars, loadVars >>

\* buildPoseidon settles; with the hasher the inputs are built and generateProof
\* is called
BuildCircuitInputs ==
  /\ dpc = "buildPoseidon"
  /\ \E h \in PoseidonOutcomes :
       IF h.ok
       THEN /\ dposeidon' = h.val
            /\ dinputs' = buildCircuitInputs(dcall.value, dcall.ownerPubkey,
                            dcall.blinding, dcall.assetId, dcall.commitment,
                            dcall.mask, h.val)
            /\ devents' = devents \o << "poseidon", "generateProof" >>
            /\ dgenerate' = [circuitType |-> "disclosure",
                             inputs |-> dinputs',
                             options |-> ForwardedOptions(dcall.options)]
            /\ dpc' = "generateProof"
            /\ UNCHANGED doutcome
       ELSE /\ dpc' = "done"
            /\ doutcome' = Thrown("Error", h.err)
            /\ UNCHANGED << dposeidon, dinputs, devents, dgenerate >>
  /\ UNCHANGED << dcall, dresult >>
  /\ UNCHANGED << pipeVars, lib, witVars, loadVars >>

\* generateProof settles; its result is decoded into revealedData
DecodeRevealedData ==
  /\ dpc = "generateProof"
  /\ \E r \in GenerateProofOutcomes(dinputs) :
       /\ dresult' = r
       /\ doutcome' =
            IF r.kind = "thrown" THEN r
            ELSE LET revealedData == RevealedData(dcall.mask, r.value.publicSignals)
                 IN  IF ~revealedData.ok THEN Thrown("SyntaxError", revealedData.err)
                     ELSE Returned([ proof |-> r.value.proof,
                                     publicSignals |-> r.value.publicSignals,
                                     revealedData |-> revealedData.val ])
  /\ dpc' = "done"
  /\ UNCHANGED << dcall, dposeidon, dinputs, devents, dgenerate >>
  /\ UNCHANGED << pipeVars, lib, witVars, loadVars >>

DisclosureCallerContinues ==
  /\ dpc = "done"
  /\ dpc' = "idle"
  /\ dcall' = Nothing
  /\ dposeidon' = Nothing
  /\ dinputs' = Nothing
  /\ dresult' = Nothing
  /\ doutcome' = Pending
  /\ devents' = << >>
  /\ dgenerate' = Nothing
  /\ UNCHANGED << pipeVars, lib, witVars, loadVars >>

NextDisclosure ==
  \/ \E note \in Notes, mask \in Masks, options \in CallerOptions :
       GenerateDisclosureProof(note, mask, options)
  \/ BuildCircuitInputs
  \/ DecodeRevealedData
  \/ DisclosureCallerContinues

SpecDisclosure == InitDisclosure /\ [][NextDisclosure]_vars

(***************************************************************************)
(* generateDisclosureProof: the claims                                     *)
(***************************************************************************)

AllFlagsFalse ==
  /\ dcall # Nothing
  /\ dcall.mask = [discloseValue |-> FALSE, discloseAssetId |-> FALSE,
                   discloseOwner |-> FALSE]

\* C10: generateDisclosureProof with all three mask flags false rejects with a
\* DisclosureMask error before any cryptographic work: at no point of that call
\* is the Poseidon hasher built, are circuit inputs constructed, or is
\* generateProof invoked.
C10_EmptyMaskRejectedFirst ==
  AllFlagsFalse =>
    /\ dpc = "done"
    /\ doutcome.kind = "thrown"
    /\ doutcome.name = "Error"
    /\ doutcome.message[1] = "DisclosureMask: at least one field "
    /\ devents = << >>
    /\ dinputs = Nothing
    /\ dresult = Nothing

\* a call with an all-false mask has been made and has settled
C10_Witness ==
  /\ AllFlagsFalse
  /\ dpc = "done"
  /\ doutcome.kind = "thrown"

\* the call returned a result to its caller
DisclosureReturned == dpc = "done" /\ doutcome.kind = "returned"

\* the mask says this revealedData field is to be disclosed
Disclosed(mask, field) ==
  CASE field = "value" -> mask.discloseValue
    [] field = "assetId" -> mask.discloseAssetId
    [] field = "ownerHash" -> mask.discloseOwner

\* C11: for every mask with at least one flag true, the returned revealedData
\* holds commitment always and value, assetId, ownerHash exactly when their
\* flag is true; a field that is not disclosed is absent, not present as
\* zero, whatever signal values the prover returned.
C11_RevealedKeysFollowMask ==
  DisclosureReturned =>
    /\ "commitment" \in DOMAIN doutcome.value.revealedData
    /\ \A field \in {"value", "assetId", "ownerHash"} :
         field \in DOMAIN doutcome.value.revealedData <=> Disclosed(dcall.mask, field)
    /\ DOMAIN doutcome.value.revealedData \subseteq
         {"commitment", "value", "assetId", "ownerHash"}

\* a call disclosing the owner only has returned, the prover having sent back
\* non-zero value and asset id signals: neither shows in revealedData
C11_Witness ==
  /\ DisclosureReturned
  /\ dcall.mask = [discloseValue |-> FALSE, discloseAssetId |-> FALSE,
                   discloseOwner |-> TRUE]
  /\ dresult.value.publicSignals[2] = LittleEndianHex(BigOfInt(2))
  /\ dresult.value.publicSignals[3] = LittleEndianHex(BigOfInt(3))
  /\ DOMAIN doutcome.value.revealedData = {"commitment", "ownerHash"}

\* the string the inputs object built for this call holds under a name
InputString(name) == EntryOf(dinputs, name).s

\* s is the decimal numeral of the non-negative b: digits only, no leading
\* zero, and reading it gives b
IsDecimalOf(s, b) ==
  /\ Len(s) >= 1
  /\ \A i \in 1..Len(s) : IsDecChar(s[i])
  /\ Len(s) > 1 => s[1] # "0"
  /\ BigIntOfString(s) = Ok(b)

\* C12: the inputs handed to generateProof carry the commitment unchanged,
\* revealed_value = value when discloseValue and '0' otherwise,
\* revealed_asset_id = assetId when discloseAssetId and '0' otherwise,
\* revealed_owner_hash = viewing_key = Hash of the one-element list
\* [ownerPubkey] when discloseOwner and '0' otherwise, and the three
\* disclose_* flags as '1' for true and '0' for false.
C12_MaskedCircuitInputs ==
  dinputs # Nothing =>
    /\ IsDecimalOf(InputString("commitment"), dcall.commitment)
    /\ IF dcall.mask.discloseValue
       THEN IsDecimalOf(InputString("revealed_value"), dcall.value)
       ELSE InputString("revealed_value") = << "0" >>
    /\ IF dcall.mask.discloseAssetId
       THEN IsDecimalOf(InputString("revealed_asset_id"), dcall.assetId)
       ELSE InputString("revealed_asset_id") = << "0" >>
    /\ IsDecimalOf(InputString("viewing_key"),
                   PoseidonHash(dposeidon, << dcall.ownerPubkey >>))
    /\ IF dcall.mask.discloseOwner
       THEN InputString("revealed_owner_hash") = InputString("viewing_key")
       ELSE InputString("revealed_owner_hash") = << "0" >>
    /\ InputString("disclose_value") = << IF dcall.mask.discloseValue THEN "1" ELSE "0" >>
    /\ InputString("disclose_asset_id") =
         << IF dcall.mask.discloseAssetId THEN "1" ELSE "0" >>
    /\ InputString("disclose_owner") = << IF dcall.mask.discloseOwner THEN "1" ELSE "0" >>

\* generateProof has been called for a note of value 100 with only the owner
\* disclosed, under a hasher whose output depends on its input: the revealed
\* value is '0' and the revealed owner hash is the viewing key, not '0'
C12_Witness ==
  /\ dpc = "generateProof"
  /\ dposeidon = "sponge"
  /\ dcall.value = BigOfInt(100)
  /\ dcall.mask = [discloseValue |-> FALSE, discloseAssetId |-> FALSE,
                   discloseOwner |-> TRUE]
  /\ InputString("revealed_value") = << "0" >>
  /\ InputString("revealed_owner_hash") = InputString("viewing_key")
  /\ InputString("revealed_owner_hash") # << "0" >>
  /\ devents = << "buildPoseidon", "poseidon", "generateProof" >>

\* hex is '0x' and the 32 bytes of the magnitude m, most significant first
IsBigEndianOf(hex, m) ==
  /\ Len(hex) = 66
  /\ hex[1] = "0"
  /\ hex[2] = "x"
  /\ Len(m) <= 32
  /\ \A k \in 0..31 : << hex[2 * k + 3], hex[2 * k + 4] >> = HexOfByte(ByteAt(m, 31 - k))

\* generateProof returned, as its four signals, the little-endian encodings of
\* the four public inputs it was given
ProverEchoedInputs ==
  /\ dresult # Nothing
  /\ dresult.kind = "returned"
  /\ Len(dresult.value.publicSignals) = 4
  /\ \A i \in 1..4 :
       LET given == BigIntOfString(InputString(PublicInputNames("disclosure")[i]))
       IN  given.ok /\ IsLittleEndianOf(dresult.value.publicSignals[i], given.val.mag)

\* C13: when the prover returns the little-endian encodings of the four public
\* inputs it was given, every disclosed field of revealedData reproduces the
\* caller's input: value is the decimal string of value, assetId is assetId,
\* ownerHash is the big-endian hex (fieldToHexBE) of Hash(ownerPubkey).
C13_DisclosedFieldsRoundTrip ==
  (DisclosureReturned /\ ProverEchoedInputs) =>
    LET revealedData == doutcome.value.revealedData
    IN  /\ dcall.mask.discloseValue =>
             /\ revealedData["value"].t = "string"
             /\ IsDecimalOf(revealedData["value"].s, dcall.value)
        /\ dcall.mask.discloseAssetId =>
             /\ revealedData["assetId"].t = "number"
             /\ BigOfInt(revealedData["assetId"].n) = dcall.assetId
        /\ dcall.mask.discloseOwner =>
             /\ revealedData["ownerHash"].t = "string"
             /\ IsBigEndianOf(revealedData["ownerHash"].s,
                              PoseidonHash(dposeidon, << dcall.ownerPubkey >>).mag)

\* a call disclosing all three fields of the note of value 2^64 - 1 has
\* returned after an echoing prover, under the input-dependent hasher
C13_Witness ==
  /\ DisclosureReturned
  /\ ProverEchoedInputs
  /\ dposeidon = "sponge"
  /\ dcall.value = MkBig(FALSE, Rep(255, 8))
  /\ dcall.mask = [discloseValue |-> TRUE, discloseAssetId |-> TRUE,
                   discloseOwner |-> TRUE]
  /\ doutcome.value.revealedData["assetId"] = JsNumber(16777215)
  /\ doutcome.value.revealedData["value"] # JsString(<< "0" >>)

(***************************************************************************)
(* generateProof: artifacts, failures of the collaborators, retries        *)
(***************************************************************************)

\* the circuit's WASM, or its proving key, is nowhere the running revision of
\* generateProof looks for it
ArtifactsUnavailable ==
  /\ call # Nothing
  /\ IF call.revision = "snarkjs"
     THEN \/ env.package = "none"
          \/ \A i \in 1..Len(SearchDirs) :
               ~existsSync(env.files, Path(SearchDirs[i], call.circuitType, "wasm"))
          \/ \A i \in 1..Len(SearchDirs) :
               ~existsSync(env.files, Path(SearchDirs[i], call.circuitType, "zkey"))
     ELSE \/ ~existsSync(env.files, Path("circuits", call.circuitType, "wasm"))
          \/ ~existsSync(env.files, Path("circuits", call.circuitType, "ark"))

\* the external prover has been invoked in this call
ProverInvoked ==
  \E i \in 1..Len(events) :
    events[i] \in {"snarkjs.groth16.fullProve", "snarkjs.wtns.calculate",
                   "generate_proof_wasm"}

\* C14: whenever the circuit WASM or the proving key is unavailable,
\* generateProof fails with CircuitNotFoundError, never with another error
\* kind and never going on to the prover, for every circuit type and every
\* options value.
C14_MissingArtifactsNotFound ==
  (ArtifactsUnavailable /\ WellFormedInputs(call.inputs)) =>
    /\ ~ProverInvoked
    /\ pc = "done" => FailedWith("CircuitNotFoundError")

\* the last external effect of the call so far
LastEvent == IF events = << >> THEN "none" ELSE events[Len(events)]

\* the messages with which a collaborator may fail
FailureMessages(outcomes) == {r.err : r \in {o \in outcomes : ~o.ok}}

\* the call ended because this collaborator threw: it was the last one
\* invoked and nothing of what it would have returned is there
FailedIn(event) ==
  /\ pc = "done"
  /\ outcome.kind = "thrown"
  /\ LastEvent = event
  /\ CASE event = "snarkjs.groth16.fullProve" -> native = Nothing
       [] event = "compressSnarkjsProofWasm" -> compressed = Nothing
       [] event = "snarkjs.wtns.calculate" -> native = Nothing
       [] event = "generate_proof_wasm" -> "proof" \notin DOMAIN native

\* inputs were well-formed and the artifacts were where the call looks for them
ValidatedAndFound ==
  /\ call # Nothing
  /\ WellFormedInputs(call.inputs)
  /\ ~ArtifactsUnavailable

\* the messages the collaborator behind an event fails with in this call
MessagesOf(event) ==
  CASE event = "snarkjs.groth16.fullProve" ->
         FailureMessages(FullProveOutcomes(call.circuitType, call.inputs,
                                           config.wasmPath, config.zkeyPath, env.files))
    [] event = "compressSnarkjsProofWasm" -> FailureMessages(CompressOutcomes)
    [] event = "snarkjs.wtns.calculate" -> FailureMessages(WitnessOutcomes)
    [] event = "generate_proof_wasm" -> FailureMessages(WasmProveOutcomes)

ProverEvents ==
  {"snarkjs.groth16.fullProve", "compressSnarkjsProofWasm",
   "snarkjs.wtns.calculate", "generate_proof_wasm"}

IsPrefix(a, b) == Len(a) <= Len(b) /\ a = SubSeq(b, 1, Len(a))

\* the external effects of a call that runs to its end, every stage once and
\* in order; the module import happens only when the module is not yet loaded
PipelineStages ==
  LET validation == IF call.validateArtifacts THEN << "fs.existsSync" >> ELSE << >>
  IN  IF call.revision = "snarkjs"
      THEN { << "require.resolve", "fs.existsSync" >> \o validation \o
             << "snarkjs.groth16.fullProve", "compressSnarkjsProofWasm" >> }
      ELSE { import \o validation \o
             << "snarkjs.wtns.calculate", "fs.readFile", "generate_proof_wasm" >> :
               import \in {<< >>, << "import groth16-proof" >>} }

toLowerCase(s) ==
  CASE s \in {"Unshield", "UNSHIELD"} -> "unshield"
    [] s \in {"Transfer", "TRANSFER"} -> "transfer"
    [] s \in {"Disclosure", "DISCLOSURE"} -> "disclosure"
    [] OTHER -> s

\* a config whose zkey key names the arkworks proving key
getCircuitConfigArkAsZkey(circuitType) ==
  LET circuitName == toLowerCase(circuitType)
  IN  [ name |-> circuitName,
        wasmPath |-> << circuitName, ".wasm" >>,
        zkeyPath |-> << circuitName, "_pk.ark" >>,
        provingKeyPath |-> << circuitName, "_pk.ark" >>,
        expectedPublicSignals |-> getExpectedPublicSignals(circuitType) ]

\* circuits.ts of the provider revision: artifact keys, no file system
getCircuitConfig(circuitType) ==
  LET circuitName == toLowerCase(circuitType)
  IN  [ name |-> circuitName,
        wasmPath |-> << circuitName, ".wasm" >>,
        zkeyPath |-> << circuitName, "_pk.zkey" >>,
        provingKeyPath |-> << circuitName, "_pk.ark" >>,
        expectedPublicSignals |-> getExpectedPublicSignals(circuitType) ]

\* the lookup before this one, without its own history
LastLookup == IF lib = Nothing THEN Nothing ELSE [lib EXCEPT !.prev = Nothing]

InitConfig ==
  /\ env \in EnvChoices
  /\ PipeIdle
  /\ DiscIdle
  /\ lib = Nothing
  /\ WitIdle
  /\ LoadIdle

\* getCircuitConfig of the provider revision
LookupConfig(circuitType) ==
  /\ lib' = Called("getCircuitConfig", [circuitType |-> circuitType, env |-> env],
                   Ok(getCircuitConfig(circuitType)), LastLookup)
  /\ UNCHANGED << pipeVars, discVars, witVars, loadVars >>

\* getCircuitConfig of the revision that resolves the installed package
LookupPackageConfig(circuitType) ==
  /\ lib' = Called("getCircuitConfig (package)",
                   [circuitType |-> circuitType, env |-> env],
                   getCircuitConfigPackage(circuitType, env), LastLookup)
  /\ UNCHANGED << pipeVars, discVars, witVars, loadVars >>

\* between two lookups the package is installed, removed or rebuilt
EnvironmentChanges ==
  /\ env' \in EnvChoices \ {env}
  /\ UNCHANGED << wasmModule, pc, call, config, native, compressed, outcome, events >>
  /\ UNCHANGED << discVars, lib, witVars, loadVars >>

NextConfig ==
  \/ \E circuitType \in CircuitType :
       \/ LookupConfig(circuitType)
       \/ LookupPackageConfig(circuitType)
  \/ EnvironmentChanges

SpecConfig == InitConfig /\ [][NextConfig]_vars

\* the lookup returned the config the claim describes for the circuit
IsKeyConfig(out, circuitType) ==
  /\ out.ok
  /\ out.val.name = circuitType
  /\ out.val.wasmPath = << circuitType, ".wasm" >>
  /\ out.val.zkeyPath = << circuitType, "_pk.zkey" >>
  /\ out.val.expectedPublicSignals = ExpectedCount(circuitType)

\* this lookup and the one before it asked for the same circuit of the same
\* getCircuitConfig
RepeatedLookup ==
  /\ lib # Nothing
  /\ lib.prev # Nothing
  /\ lib.prev.fn = lib.fn
  /\ lib.prev.in.circuitType = lib.in.circuitType

RECURSIVE JsToString(_)
RECURSIVE JoinFrom(_, _)

\* Array.prototype.join(','): null and undefined elements give nothing
JoinFrom(a, i) ==
  IF i > Len(a) THEN << >>
  ELSE (IF i > 1 THEN << "," >> ELSE << >>) \o
       (IF a[i].t \in {"null", "undefined"} THEN << >> ELSE JsToString(a[i])) \o
       JoinFrom(a, i + 1)

\* String(value)
JsToString(v) ==
  CASE v.t = "string" -> v.s
    [] v.t = "number" -> DecOfInt(v.n)
    [] v.t = "bigint" -> BigToString10(v.b)
    [] v.t = "null" -> << "n", "u", "l", "l" >>
    [] v.t = "undefined" -> << "u", "n", "d", "e", "f", "i", "n", "e", "d" >>
    [] v.t = "array" -> JoinFrom(v.a, 1)
    [] OTHER -> << "[", "o", "b", "j", "e", "c", "t", " ", "O", "b", "j", "e", "c", "t", "]" >>

\* a formatter that writes decimal strings as hex
formatInputValueHexOut(value) ==
  IF value.t = "string"
  THEN IF StartsWith0x(value.s)
       THEN LET b == BigIntOfString(value.s)
            IN  IF b.ok THEN Ok(BigToString10(b.val)) ELSE b
       ELSE LET b == BigIntOfString(value.s)
            IN  IF b.ok /\ ~b.val.neg THEN Ok(<< "0", "x" >> \o BigToString16(b.val))
                ELSE Ok(value.s)
  ELSE IF value.t = "bigint" THEN Ok(BigToString10(value.b))
  ELSE Ok(JsToString(value))

\* formatInputValue: a hex string is read and written in decimal, any other
\* string is returned as it is, a bigint is written in decimal, and what is
\* left goes through String()
formatInputValue(value) ==
  IF value.t = "string"
  THEN IF StartsWith0x(value.s)
       THEN LET b == BigIntOfString(value.s)
            IN  IF b.ok THEN Ok(BigToString10(b.val)) ELSE b
       ELSE Ok(value.s)
  ELSE IF value.t = "bigint" THEN Ok(BigToString10(value.b))
  ELSE Ok(JsToString(value))

\* values.map(v => formatInputValue(v))
formatInputArray(values) ==
  MapThrowing([i \in 1..Len(values) |-> formatInputValue(values[i])])

\* formatCircuitInputs: entry by entry, arrays through formatInputArray
formatCircuitInputs(inputs) ==
  LET entries == ObjectEntries(inputs)
      formatted ==
        MapThrowing([i \in 1..Len(entries) |->
          LET value == entries[i][2]
          IN  IF value.t = "array"
              THEN LET a == formatInputArray(value.a)
                   IN  IF a.ok
                       THEN Ok(JsArray([j \in 1..Len(a.val) |-> JsString(a.val[j])]))
                       ELSE a
              ELSE LET x == formatInputValue(value)
                   IN  IF x.ok THEN Ok(JsString(x.val)) ELSE x])
  IN  IF formatted.ok
      THEN Ok(JsObject([i \in 1..Len(entries) |-> << entries[i][1], formatted.val[i] >>]))
      ELSE formatted

Chars3(a, b, c) == << a, b, c >>

\* the scalars the formatter is tried on
FormatterScalars ==
  {JsBigInt(b) : b \in CodecNumbers} \cup
  {JsNumber(n) : n \in {0, 100, 256, 291, -1}} \cup
  {JsString(BigToString10(b)) :
     b \in {BigOfInt(0), BigOfInt(100), BigOfInt(-5), BN254_PRIME, TwoTo256}} \cup
  {JsString(<< "0", "x" >> \o BigToString16(b)) :
     b \in {BigOfInt(0), BigOfInt(100), BigOfInt(256), BigOfInt(200), BN254_PRIME, TwoTo256}} \cup
  {JsString(s) : s \in {<< "0", "0", "7" >>, << >>, << "0", "x", "F", "F" >>,
                        << "0", "X", "6", "4" >>, << "0", "x" >>,
                        << "0", "x", "z", "z" >>}}

N(n) == JsNumber(n)

\* the arrays the formatter is tried on: flat ones and matrices
FormatterArrays ==
  { << N(1), N(2), N(3) >>,
    << JsBigInt(BigOfInt(100)), JsBigInt(BigOfInt(200)) >>,
    << JsString(Chars3("0", "x", "6") \o << "4" >>),
       JsString(Chars3("0", "x", "c") \o << "8" >>) >>,
    << JsString(<< "5" >>), JsString(<< "0", "x", "z", "z" >>) >>,
    << JsArray(<< N(1), N(2) >>), JsArray(<< N(3), N(4) >>) >>,
    << >> }

\* the bundles the formatter is tried on
FormatterBundles ==
  { JsObject(<< << "amount", N(100) >>,
                << "nullifier", N(291) >>,
                << "pathElements", JsArray(<< N(1), N(2), N(3) >>) >> >>),
    JsObject(<< << "root", JsString(Chars3("0", "x", "6") \o << "4" >>) >>,
                << "value", JsBigInt(PrimeMinusOne) >>,
                << "path", JsArray(<< JsString(Chars3("0", "x", "c") \o << "8" >>),
                                      JsBigInt(BigOfInt(7)) >>) >> >>),
    JsObject(<< << "amount", JsString(<< "7" >>) >>,
                << "pathElements",
                   JsArray(<< JsArray(<< N(1), N(2) >>), JsArray(<< N(3), N(4) >>) >>) >> >>),
    JsObject(<< << "pathIndices",
                   JsArray(<< JsArray(<< JsString(Chars3("0", "x", "1")) >>) >>) >> >>),
    JsObject(<< << "amount", JsString(<< "0", "x", "z", "z" >>) >> >>),
    JsObject(<< >>) }

InitFormatter ==
  /\ env = [package |-> "none", files |-> {}, wasmBuilt |-> FALSE]
  /\ PipeIdle
  /\ DiscIdle
  /\ lib = Nothing
  /\ WitIdle
  /\ LoadIdle

FormatInputValue(value) ==
  /\ lib' = Called("formatInputValue", value, formatInputValue(value), Nothing)
  /\ UNCHANGED << pipeVars, discVars, witVars, loadVars >>

\* formatInputValue on what formatInputValue has just returned
FormatInputValueAgain ==
  /\ lib # Nothing
  /\ lib.fn = "formatInputValue"
  /\ lib.prev = Nothing
  /\ lib.out.ok
  /\ lib' = Called("formatInputValue", JsString(lib.out.val),
                   formatInputValue(JsString(lib.out.val)), lib)
  /\ UNCHANGED << pipeVars, discVars, witVars, loadVars >>

FormatInputArray(values) ==
  /\ lib' = Called("formatInputArray", JsArray(values), formatInputArray(values), Nothing)
  /\ UNCHANGED << pipeVars, discVars, witVars, loadVars >>

FormatCircuitInputs(inputs) ==
  /\ lib' = Called("formatCircuitInputs", inputs, formatCircuitInputs(inputs), Nothing)
  /\ UNCHANGED << pipeVars, discVars, witVars, loadVars >>

NextFormatter ==
  \/ \E value \in FormatterScalars : FormatInputValue(value)
  \/ FormatInputValueAgain
  \/ \E values \in FormatterArrays : FormatInputArray(values)
  \/ \E inputs \in FormatterBundles : FormatCircuitInputs(inputs)

SpecFormatter == InitFormatter /\ [][NextFormatter]_vars

\* C18: the scalar formatter is idempotent: formatInputValue applied to its
\* own result returns that result, for every accepted input (decimal string,
\* 0x-hex string, number, bigint); it accepts values at and above the prime.
C18_FormatInputValueIdempotent ==
  /\ LibChained("formatInputValue", "formatInputValue") =>
       /\ lib.out.ok
       /\ lib.out.val = lib.prev.out.val
  /\ (LibCalled("formatInputValue") /\ lib.in.t = "bigint") => lib.out.ok

\* formatInputValue has been applied to the result it gave for '0x' followed
\* by the hex digits of the prime
C18_Witness ==
  /\ LibChained("formatInputValue", "formatInputValue")
  /\ lib.prev.in = JsString(<< "0", "x" >> \o BigToString16(BN254_PRIME))
  /\ lib.in = JsString(BigToString10(BN254_PRIME))
  /\ lib.out = Ok(BigToString10(BN254_PRIME))

\* out is the decimal string that stands for the scalar v
ConvertedScalar(v, out) ==
  /\ v.t \in {"string", "number", "bigint"}
  /\ out.t = "string"
  /\ ~StartsWith0x(out.s)
  /\ ToBigIntValue(v).ok
  /\ BigIntOfString(out.s) = ToBigIntValue(v)

\* out has the structure of the input value v, with converted leaves: a
\* scalar, an array of scalars, or an array of arrays of scalars
SameShape(v, out) ==
  IF v.t # "array" THEN ConvertedScalar(v, out)
  ELSE /\ out.t = "array"
       /\ Len(out.a) = Len(v.a)
       /\ \A i \in 1..Len(v.a) :
            IF v.a[i].t # "array" THEN ConvertedScalar(v.a[i], out.a[i])
            ELSE /\ out.a[i].t = "array"
                 /\ Len(out.a[i].a) = Len(v.a[i].a)
                 /\ \A j \in 1..Len(v.a[i].a) :
                      ConvertedScalar(v.a[i].a[j], out.a[i].a[j])

\* C19: formatCircuitInputs converts a bundle without altering field names or
\* structure: the output has the input's keys; a scalar maps to its decimal
\* string; an array maps to an array of the same length and order with each
\* element converted; a two-level nested array (a matrix) maps to the same
\* shape with converted leaves.
C19_StructurePreserved ==
  (LibCalled("formatCircuitInputs") /\ lib.out.ok) =>
    /\ lib.out.val.t = "object"
    /\ Len(lib.out.val.entries) = Len(lib.in.entries)
    /\ \A i \in 1..Len(lib.in.entries) :
         /\ lib.out.val.entries[i][1] = lib.in.entries[i][1]
         /\ SameShape(lib.in.entries[i][2], lib.out.val.entries[i][2])

(***************************************************************************)
(* src/witness.ts: calculateWitness calls in flight together               *)
(***************************************************************************)

\* the inputs of the calls
WitnessInputs ==
  { JsObject(<< << "amount", JsString(<< "1" >>) >> >>),
    JsObject(<< << "amount", JsString(<< "2" >>) >> >>) }

\* the witness of the circuit on inputs: wire 0 is the constant 1
WitnessOf(inputs) == << << "1" >>, EntryOf(inputs, "amount").s >>

\* snarkjs.wtns.calculate(inputs, wasmPath, wtnsPath): it throws, or writes the
\* witness file
WtnsCalculateOutcomes(inputs) ==
  {Throw(<< "Error: Assert Failed" >>), Ok([wtns |-> WitnessOf(inputs)])}

\* calculateWitness up to its first await: the path is taken from the clock
CallCalculateWitness(p, inputs) ==
  /\ wpc[p] = "idle"
  /\ winputs' = [winputs EXCEPT ![p] = inputs]
  /\ wtnsPath' = [wtnsPath EXCEPT ![p] = clock]
  /\ wpc' = [wpc EXCEPT ![p] = "wtns.calculate"]
  /\ UNCHANGED << clock, tmp, wresult >>
  /\ UNCHANGED << pipeVars, discVars, lib, loadVars >>

\* a call that settles leaving its temporary file where it is
SettleWithoutCleanup(p, o) ==
  /\ UNCHANGED tmp
  /\ wresult' = [wresult EXCEPT ![p] = o]
  /\ wpc' = [wpc EXCEPT ![p] = "done"]

\* the finally block, then the promise settles: the file at the call's path is
\* removed when there is one
FinallyUnlink(p, o) ==
  /\ tmp' = [tmp EXCEPT ![wtnsPath[p]] = Nothing]
  /\ wresult' = [wresult EXCEPT ![p] = o]
  /\ wpc' = [wpc EXCEPT ![p] = "done"]

\* Step 1 settles: the witness file is written at the call's path, or the
\* calculation throws and the finally block runs
WtnsCalculate(p) ==
  /\ wpc[p] = "wtns.calculate"
  /\ \E r \in WtnsCalculateOutcomes(winputs[p]) :
       IF r.ok
       THEN /\ tmp' = [tmp EXCEPT ![wtnsPath[p]] = r.val]
            /\ wpc' = [wpc EXCEPT ![p] = "wtns.exportJson"]
            /\ UNCHANGED wresult
       ELSE FinallyUnlink(p, Thrown("Error", r.err))
  /\ UNCHANGED << clock, winputs, wtnsPath >>
  /\ UNCHANGED << pipeVars, discVars, lib, loadVars >>

\* Step 2 settles: the file at the call's path is read; Step 3, the return and
\* the finally block follow
WtnsExportJson(p) ==
  /\ wpc[p] = "wtns.exportJson"
  /\ FinallyUnlink(p, IF tmp[wtnsPath[p]] = Nothing
                      THEN Thrown("Error", << "ENOENT: no such file or directory" >>)
                      ELSE Returned([witness |-> tmp[wtnsPath[p]].wtns]))
  /\ UNCHANGED << clock, winputs, wtnsPath >>
  /\ UNCHANGED << pipeVars, discVars, lib, loadVars >>

\* the caller has the settled promise
WitnessCallerContinues(p) ==
  /\ wpc[p] = "done"
  /\ wpc' = [wpc EXCEPT ![p] = "idle"]
  /\ winputs' = [winputs EXCEPT ![p] = Nothing]
  /\ wtnsPath' = [wtnsPath EXCEPT ![p] = Nothing]
  /\ wresult' = [wresult EXCEPT ![p] = Pending]
  /\ UNCHANGED << clock, tmp >>
  /\ UNCHANGED << pipeVars, discVars, lib, loadVars >>

\* a millisecond passes
Tick ==
  /\ clock < MaxClock
  /\ clock' = clock + 1
  /\ UNCHANGED << tmp, wpc, winputs, wtnsPath, wresult >>
  /\ UNCHANGED << pipeVars, discVars, lib, loadVars >>

InitWitness ==
  /\ env = [package |-> "@orbinum/circuits",
            files |-> AllIn("root") \cup AllIn("circuits"), wasmBuilt |-> TRUE]
  /\ PipeIdle
  /\ DiscIdle
  /\ lib = Nothing
  /\ WitIdle
  /\ LoadIdle

NextWitness ==
  \/ \E p \in Procs :
       \/ \E inputs \in WitnessInputs : CallCalculateWitness(p, inputs)
       \/ WtnsCalculate(p)
       \/ WtnsExportJson(p)
       \/ WitnessCallerContinues(p)
  \/ Tick

SpecWitness == InitWitness /\ [][NextWitness]_vars

\* what a call on these inputs gives when no other call is in flight
OutcomesAlone(inputs) ==
  { Thrown("Error", << "Error: Assert Failed" >>),
    Returned([witness |-> WitnessOf(inputs)]) }

InFlight(p) == wpc[p] \in {"wtns.calculate", "wtns.exportJson"}

\* C20: concurrent requests share no mutable state: under every interleaving
\* of calls, each call's outcome is one it could have had running alone, and
\* no two calls in flight use the same temporary file.
C20_CallsIndependent ==
  /\ \A p \in Procs : wpc[p] = "done" => wresult[p] \in OutcomesAlone(winputs[p])
  /\ \A p, q \in Procs : (p # q /\ InFlight(p) /\ InFlight(q)) => wtnsPath[p] # wtnsPath[q]

(***************************************************************************)
(* validateInputs, called on its own                                       *)
(***************************************************************************)

S1(c) == JsString(<< c >>)

\* the bundles validateInputs is tried on
ValidationBundles ==
  { JsNull,
    JsUndefined,
    S1("x"),
    JsNumber(0),
    JsNumber(5),
    JsObject(<< >>),
    JsObject(<< << "a", S1("1") >>, << "b", S1("2") >>,
                << "c", JsArray(<< S1("3"), S1("4") >>) >> >>),
    JsObject(<< << "a", S1("1") >>,
                << "b", JsObject(<< << "nested", S1("2") >> >>) >>,
                << "c", JsArray(<< S1("3"), S1("4") >>) >> >>),
    JsObject(<< << "a", S1("1") >>, << "b", JsUndefined >> >>),
    JsObject(<< << "a", S1("1") >>, << "b", JsNull >> >>),
    JsObject(<< << "merkle_root", JsNull >>, << "nullifier", JsUndefined >> >>),
    JsObject(<< << "a", S1("1") >>,
                << "path", JsArray(<< S1("3"), JsNull >>) >> >>),
    JsObject(<< << "path",
                   JsArray(<< JsArray(<< S1("1") >>),
                              JsArray(<< S1("2"), JsUndefined >>) >>) >> >>) }

InitValidate ==
  /\ env = [package |-> "none", files |-> {}, wasmBuilt |-> FALSE]
  /\ PipeIdle
  /\ DiscIdle
  /\ lib = Nothing
  /\ WitIdle
  /\ LoadIdle

\* validateInputs(inputs); what it threw, or that it returned
ValidateInputsCall(inputs) ==
  /\ lib' = Called("validateInputs", inputs, validateInputs(inputs), LastLookup)
  /\ UNCHANGED << pipeVars, discVars, witVars, loadVars >>

NextValidate == \E inputs \in ValidationBundles : ValidateInputsCall(inputs)

SpecValidate == InitValidate /\ [][NextValidate]_vars

IsNullish(v) == v.t \in {"null", "undefined"}

\* v is null or undefined, or an array holding such an element, or an array
\* of arrays one of which holds such an element
NullishWithin(v) ==
  \/ IsNullish(v)
  \/ /\ v.t = "array"
     /\ \E i \in 1..Len(v.a) :
          \/ IsNullish(v.a[i])
          \/ /\ v.a[i].t = "array"
             /\ \E j \in 1..Len(v.a[i].a) : IsNullish(v.a[i].a[j])

\* the bundle is missing, is not a mapping, or has a null/undefined leaf
MustBeRejected(inputs) ==
  \/ inputs.t # "object"
  \/ \E i \in 1..Len(inputs.entries) : NullishWithin(inputs.entries[i][2])

\* C21: input validation rejects every bundle that is missing, is not a
\* mapping, or contains a null/undefined leaf value, including a null or
\* undefined element inside an array or nested array value.
C21_RejectsNullLeaves ==
  (LibCalled("validateInputs") /\ MustBeRejected(lib.in)) => ~lib.out.ok


\* ---------------------------------------------------------------------------
\* Artifact providers (circuits.ts, provider revision)
\* ---------------------------------------------------------------------------

\* path.join(packageRoot, sub, filename); sub "root" is packageRoot itself
FsPath(packageRoot, sub, filename) ==
  [root |-> packageRoot, sub |-> sub, filename |-> filename]

\* the artifact kind a configured filename stands for
ExtOf(filename) ==
  IF filename[2] = ".wasm" THEN "wasm"
  ELSE IF filename[2] = "_pk.zkey" THEN "zkey" ELSE "ark"

\* this.fs.existsSync(p): the package directory of e holds e.files
fsExistsSync(e, p) ==
  /\ p.root = e.package
  /\ existsSync(e.files, Path(p.sub, p.filename[1], ExtOf(p.filename)))

\* this.fs.readFileSync(filePath): the bytes stored at that path
readFileSync(p) == [bytesOf |-> p]

resolvePackageRoot(e) ==
  IF e.package = "none"
  THEN Throw(<< "Cannot resolve @orbinum/circuits package" >>)
  ELSE Ok(e.package)

\* new NodeArtifactProvider(packageRoot?): `packageRoot || this.resolvePackageRoot()`,
\* an omitted argument and the empty string both being falsy
NodeArtifactProvider(packageRoot, e) ==
  IF packageRoot # "" THEN Ok([packageRoot |-> packageRoot])
  ELSE LET r == resolvePackageRoot(e)
       IN  IF r.ok THEN Ok([packageRoot |-> r.val]) ELSE r

\* the directories of searchDirs that findArtifactPath probes, in order, up to
\* and including the first that holds the file
ProbedDirs(provider, filename, e) ==
  LET hit == {i \in 1..Len(SearchDirs) :
                fsExistsSync(e, FsPath(provider.packageRoot, SearchDirs[i], filename))}
      last == IF hit = {} THEN Len(SearchDirs)
              ELSE CHOOSE i \in hit : \A j \in hit : i <= j
  IN  SubSeq(SearchDirs, 1, last)

findArtifactPath(provider, filename, e) ==
  LET probed == ProbedDirs(provider, filename, e)
      p == FsPath(provider.packageRoot, probed[Len(probed)], filename)
  IN  IF fsExistsSync(e, p) THEN Ok(p)
      ELSE Throw([text |-> << "Artifact ", "not found", " in " >>,
                  filename |-> filename,
                  dirs |-> << FsPath(provider.packageRoot, "root", << >>) >>])

\* the file system calls of one artifact request
NodeIo(provider, filename, e) ==
  LET probed == ProbedDirs(provider, filename, e)
      found == findArtifactPath(provider, filename, e)
  IN  [i \in 1..Len(probed) |->
         [op |-> "existsSync",
          arg |-> FsPath(provider.packageRoot, probed[i], filename)]]
      \o (IF found.ok THEN << [op |-> "readFileSync", arg |-> found.val] >>
          ELSE << >>)

NodeGetArtifact(provider, filename, e) ==
  LET found == findArtifactPath(provider, filename, e)
  IN  IF found.ok THEN Ok(readFileSync(found.val)) ELSE found

\* constructor arguments: "" stands for an omitted one
PackageRoots == {"", "/invalid/path"}

\* a constructor that keeps the base URL as configured
KeepTrailingSlash(url) == url

\* baseUrl.replace(/\/$/, ''): one trailing slash is removed
StripTrailingSlash(url) ==
  IF Len(url) > 0 /\ url[Len(url)] = "/" THEN SubSeq(url, 1, Len(url) - 1)
  ELSE url

DEFAULT_CIRCUIT_URL == << "https://circuits.orbinum.io", "/", "v1" >>

\* new WebArtifactProvider(baseUrl?)
WebArtifactProvider(baseUrl) ==
  [baseUrl |-> StripTrailingSlash(IF baseUrl.given THEN baseUrl.url
                                  ELSE DEFAULT_CIRCUIT_URL)]

\* `${this.baseUrl}/${filename}`
ArtifactUrl(provider, filename) == provider.baseUrl \o << "/" >> \o filename

\* configured base URLs: a URL is its origin followed by path tokens
BaseUrls ==
  { [given |-> FALSE, url |-> << >>] } \cup
  { [given |-> TRUE, url |-> u] :
      u \in { << "https://test.orbinum.com", "/", "circuits" >>,
              << "https://slash.com", "/" >>,
              << "https://slash.com", "/", "/" >> } }

Bodies == { << >>, << 0, 97, 115, 109 >> }

\* what fetch(url) settles with: a response, or a rejection of the transport
FetchOutcomes ==
  { [rejected |-> FALSE, status |-> st, body |-> b] :
      st \in {200, 299, 300, 404, 500}, b \in Bodies }
  \cup { [rejected |-> TRUE, status |-> 0, body |-> << >>] }

\* response.ok
ResponseOk(response) == response.status >= 200 /\ response.status <= 299

fetchArtifact(provider, filename, response) ==
  LET url == ArtifactUrl(provider, filename)
  IN  IF response.rejected THEN Throw([text |-> << "fetch failed" >>])
      ELSE IF ~ResponseOk(response)
      THEN Throw([text |-> << "Failed to fetch circuit artifact: " >>,
                  url |-> url, status |-> response.status])
      ELSE Ok(response.body)

InitProvider ==
  /\ env \in EnvChoices
  /\ wasmModule = "null"
  /\ PipeIdle
  /\ DiscIdle
  /\ lib = Nothing
  /\ WitIdle
  /\ LoadIdle

\* a provider call recorded in lib, its I/O recorded in events
ProviderCall(fn, in, out, io) ==
  /\ lib' = Called(fn, in, out, Nothing)
  /\ events' = io
  /\ UNCHANGED << env, wasmModule, pc, call, config, native, compressed, outcome >>
  /\ UNCHANGED << discVars, witVars, loadVars >>

\* new NodeArtifactProvider(packageRoot).getCircuitWasm(type)
NodeGetCircuitWasm(packageRoot, type) ==
  LET made == NodeArtifactProvider(packageRoot, env)
      filename == getCircuitConfig(type).wasmPath
      in == [packageRoot |-> packageRoot, type |-> type, filename |-> filename,
             env |-> env]
  IN  IF ~made.ok
      THEN ProviderCall("new NodeArtifactProvider", in, made, << >>)
      ELSE ProviderCall("NodeArtifactProvider.getCircuitWasm",
                        [in EXCEPT !.packageRoot = made.val.packageRoot],
                        NodeGetArtifact(made.val, filename, env),
                        NodeIo(made.val, filename, env))

\* new NodeArtifactProvider(packageRoot).getCircuitZkey(type)
NodeGetCircuitZkey(packageRoot, type) ==
  LET made == NodeArtifactProvider(packageRoot, env)
      filename == getCircuitConfig(type).zkeyPath
      in == [packageRoot |-> packageRoot, type |-> type, filename |-> filename,
             env |-> env]
  IN  IF ~made.ok
      THEN ProviderCall("new NodeArtifactProvider", in, made, << >>)
      ELSE ProviderCall("NodeArtifactProvider.getCircuitZkey",
                        [in EXCEPT !.packageRoot = made.val.packageRoot],
                        NodeGetArtifact(made.val, filename, env),
                        NodeIo(made.val, filename, env))

\* new WebArtifactProvider(baseUrl).getCircuitWasm(type)
WebGetCircuitWasm(baseUrl, type, response) ==
  LET provider == WebArtifactProvider(baseUrl)
      filename == getCircuitConfig(type).wasmPath
  IN  ProviderCall("WebArtifactProvider.getCircuitWasm",
                   [baseUrl |-> baseUrl, type |-> type, filename |-> filename,
                    response |-> response],
                   fetchArtifact(provider, filename, response),
                   << [op |-> "fetch", arg |-> ArtifactUrl(provider, filename)] >>)

\* new WebArtifactProvider(baseUrl).getCircuitZkey(type)
WebGetCircuitZkey(baseUrl, type, response) ==
  LET provider == WebArtifactProvider(baseUrl)
      filename == getCircuitConfig(type).zkeyPath
  IN  ProviderCall("WebArtifactProvider.getCircuitZkey",
                   [baseUrl |-> baseUrl, type |-> type, filename |-> filename,
                    response |-> response],
                   fetchArtifact(provider, filename, response),
                   << [op |-> "fetch", arg |-> ArtifactUrl(provider, filename)] >>)

NextProvider ==
  \/ \E r \in PackageRoots, t \in CircuitType : NodeGetCircuitWasm(r, t)
  \/ \E r \in PackageRoots, t \in CircuitType : NodeGetCircuitZkey(r, t)
  \/ \E b \in BaseUrls, t \in CircuitType, resp \in FetchOutcomes :
       WebGetCircuitWasm(b, t, resp)
  \/ \E b \in BaseUrls, t \in CircuitType, resp \in FetchOutcomes :
       WebGetCircuitZkey(b, t, resp)

SpecProvider == InitProvider /\ [][NextProvider]_vars

\* lib is an artifact request to the local-storage provider
NodeRequest ==
  \/ LibCalled("NodeArtifactProvider.getCircuitWasm")
  \/ LibCalled("NodeArtifactProvider.getCircuitZkey")

\* the candidate directories that hold the requested file
Holding ==
  {i \in 1..Len(SearchDirs) :
     /\ lib.in.packageRoot = lib.in.env.package
     /\ Path(SearchDirs[i], lib.in.type,
             IF lib.fn = "NodeArtifactProvider.getCircuitWasm" THEN "wasm" ELSE "zkey")
          \in lib.in.env.files}

\* msg has d among its parts
MessageNames(msg, d) == \E i \in 1..Len(msg) : msg[i] = d

\* C22: the local-storage provider searches packageRoot, packageRoot/artifacts
\* and packageRoot/pkg in that order for '<name>.wasm' (getCircuitWasm) or
\* '<name>_pk.zkey' (getCircuitZkey): it reads the file from the first of them
\* that contains it, and when none contains it the call fails with an error
\* whose message contains 'not found' and lists the searched directories.
C22_SearchOrderAndNotFound ==
  NodeRequest =>
    /\ lib.in.filename =
         << lib.in.type,
            IF lib.fn = "NodeArtifactProvider.getCircuitWasm" THEN ".wasm"
            ELSE "_pk.zkey" >>
    /\ Holding # {} =>
         LET first == CHOOSE i \in Holding : \A j \in Holding : i <= j
             p == FsPath(lib.in.packageRoot, SearchDirs[first], lib.in.filename)
         IN  /\ lib.out = Ok(readFileSync(p))
             /\ events = [i \in 1..first |->
                            [op |-> "existsSync",
                             arg |-> FsPath(lib.in.packageRoot, SearchDirs[i],
                                            lib.in.filename)]]
                         \o << [op |-> "readFileSync", arg |-> p] >>
    /\ Holding = {} =>
         /\ ~lib.out.ok
         /\ MessageNames(lib.out.err.text, "not found")
         /\ \A i \in 1..Len(SearchDirs) :
              MessageNames(lib.out.err.dirs,
                           FsPath(lib.in.packageRoot, SearchDirs[i], << >>))

\* the searching and reading half of C22, which the code does satisfy
C22_FirstHoldingDirectoryIsRead ==
  (NodeRequest /\ Holding # {}) =>
    LET first == CHOOSE i \in Holding : \A j \in Holding : i <= j
    IN  lib.out = Ok(readFileSync(FsPath(lib.in.packageRoot, SearchDirs[first],
                                         lib.in.filename)))



\* lib is an artifact request to the network provider that fetch answered
\* with a response
WebRequest ==
  /\ \/ LibCalled("WebArtifactProvider.getCircuitWasm")
     \/ LibCalled("WebArtifactProvider.getCircuitZkey")
  /\ ~lib.in.response.rejected

\* the base URL the provider was configured with
ConfiguredUrl ==
  IF lib.in.baseUrl.given THEN lib.in.baseUrl.url ELSE DEFAULT_CIRCUIT_URL

EndsWithSlash(url) == Len(url) > 0 /\ url[Len(url)] = "/"

\* two adjacent slashes after the origin
DoubleSlash(url) == \E i \in 1..(Len(url) - 1) : url[i] = "/" /\ url[i + 1] = "/"

Is2xx(status) == status \in 200..299

\* what the network provider does with the response, whatever the URL
WebResponseHandling ==
  /\ Len(events) = 1
  /\ events[1].op = "fetch"
  /\ ~Is2xx(lib.in.response.status) =>
       /\ ~lib.out.ok
       /\ lib.out.err.url = events[1].arg
       /\ lib.out.err.status = lib.in.response.status
  /\ Is2xx(lib.in.response.status) => lib.out = Ok(lib.in.response.body)

\* C23: the network provider performs exactly one GET per artifact request,
\* to baseUrl + '/' + filename, where a trailing slash on the configured base
\* URL never produces a double slash; a non-2xx response fails the call with
\* an error carrying the URL and the status code; a 2xx response yields
\* exactly the response body bytes.
C23_OneGetNoDoubleSlash ==
  WebRequest =>
    /\ WebResponseHandling
    /\ ~EndsWithSlash(ConfiguredUrl) =>
         events[1].arg = ConfiguredUrl \o << "/" >> \o lib.in.filename
    /\ EndsWithSlash(ConfiguredUrl) => ~DoubleSlash(events[1].arg)

\* C23 (amended): exactly one GET per artifact request; the URL is the
\* configured base URL with one trailing slash, if any, removed, then '/',
\* then the filename, so that a base URL ending in a single slash produces no
\* double slash; non-2xx and 2xx responses are handled as in C23.
C23_OneTrailingSlashRemoved ==
  WebRequest =>
    /\ WebResponseHandling
    /\ events[1].arg =
         IF EndsWithSlash(ConfiguredUrl) THEN ConfiguredUrl \o lib.in.filename
         ELSE ConfiguredUrl \o << "/" >> \o lib.in.filename
    /\ (~DoubleSlash(ConfiguredUrl)) => ~DoubleSlash(events[1].arg)

\* a proving-key request to a base URL ending in one slash was answered 404
C23_Witness ==
  /\ LibCalled("WebArtifactProvider.getCircuitZkey")
  /\ ~lib.in.response.rejected
  /\ lib.in.baseUrl.given
  /\ EndsWithSlash(lib.in.baseUrl.url)
  /\ ~DoubleSlash(lib.in.baseUrl.url)
  /\ lib.in.response.status = 404
  /\ ~lib.out.ok



(***************************************************************************)
(* generateProof: the prover and the artifact steps                        *)
(***************************************************************************)

CompressorInvoked ==
  \E i \in 1..Len(events) : events[i] = "compressSnarkjsProofWasm"

\* a probe of the file system for the artifacts came before every prover call
ArtifactsConfirmedFirst ==
  \A i \in 1..Len(events) :
    events[i] \in {"snarkjs.groth16.fullProve", "snarkjs.wtns.calculate",
                   "generate_proof_wasm"}
      => \E j \in 1..(i - 1) : events[j] = "fs.existsSync"

\* C24: the prover is invoked only after both artifacts (circuit WASM and
\* proving key) have been obtained or confirmed for that call; if either
\* artifact step fails, the prover and the compressor are never invoked.
C24_ProverAfterArtifacts ==
  /\ ProverInvoked => (ArtifactsConfirmedFirst /\ ~ArtifactsUnavailable)
  /\ ArtifactsUnavailable => (~ProverInvoked /\ ~CompressorInvoked)

\* C24 in the revision of generateProof that looks the artifacts up in the
\* installed package, where it holds
C24_ProverAfterPackageLookup ==
  (call # Nothing /\ call.revision = "snarkjs") => C24_ProverAfterArtifacts



(***************************************************************************)
(* wasm-loader.ts: initWasm, generateProofWasm,                            *)
(* generateProofFromDecimalWasm and isWasmReady, called concurrently       *)
(***************************************************************************)

LoaderFns == {"initWasm", "generateProofWasm", "generateProofFromDecimalWasm"}

\* what the imported module may export: `typeof wasm.default === 'function'`,
\* `typeof wasm.init_panic_hook === 'function'`
WasmBuilds == [hasDefault : BOOLEAN, hasPanicHook : BOOLEAN]

\* the most initialisation steps after which a new call still starts while the
\* module is not loaded
MaxInitWork == 4

\* the environments of the loader: the module was built, or was not
LoaderEnvs ==
  {e \in EnvChoices :
     e.package = "none" \/ e.files = AllIn("root") \cup AllIn("circuits")}

\* isWasmReady()
isWasmReady == wasmModule # "null"

InitStep(p, step) == [by |-> p, step |-> step, outcome |-> "pending"]

\* the last step of call p in the log settles
StepSettled(log, p, o) ==
  LET mine == {i \in 1..Len(log) : log[i].by = p}
      last == CHOOSE i \in mine : \A j \in mine : j <= i
  IN  [log EXCEPT ![last].outcome = o]

SetResult(p, r) ==
  /\ loadPc' = [loadPc EXCEPT ![p] = "done"]
  /\ loadResult' = [loadResult EXCEPT ![p] = r]

\* the catch of initWasm
InitFailed(p, cause) ==
  SetResult(p, Thrown("Error", << "Failed to initialize WASM module: ", cause >>))

\* the try of generateProofWasm and generateProofFromDecimalWasm: the call of
\* the module's function, JSON.parse, and the catch
CallModule(p, r) ==
  SetResult(p, IF r.ok THEN Returned(r.val) ELSE Thrown("Error", r.err))

\* initWasm has resolved: it returns, or the function awaiting it goes on
InitResolved(p) ==
  IF loadCall[p].fn = "initWasm"
  THEN SetResult(p, Returned("undefined"))
  ELSE /\ loadPc' = [loadPc EXCEPT ![p] = "generate"]
       /\ UNCHANGED loadResult

\* initWasm from `wasm.init_panic_hook` to its end, all synchronous
PanicHookAndAssign(p, log) ==
  IF wasmBuild.hasPanicHook
  THEN \E hookOk \in BOOLEAN :
         IF hookOk
         THEN /\ initLog' = Append(log, [InitStep(p, "init_panic_hook()")
                                           EXCEPT !.outcome = "ok"])
              /\ wasmModule' = "loaded"
              /\ InitResolved(p)
         ELSE /\ initLog' = Append(log, [InitStep(p, "init_panic_hook()")
                                           EXCEPT !.outcome = "failed"])
              /\ InitFailed(p, "unreachable")
              /\ UNCHANGED wasmModule
  ELSE /\ initLog' = log
       /\ wasmModule' = "loaded"
       /\ InitResolved(p)

\* a call of one of the three functions, up to its first await
CallLoader(p, fn) ==
  /\ loadPc[p] = "idle"
  /\ isWasmReady \/ Len(initLog) < MaxInitWork
  /\ loadCall' = [loadCall EXCEPT ![p] = [fn |-> fn]]
  /\ IF isWasmReady
     THEN /\ IF fn = "initWasm"
             THEN SetResult(p, Returned("undefined"))
             ELSE \E r \in WasmProveOutcomes : CallModule(p, r)
          /\ UNCHANGED initLog
     ELSE /\ initLog' = Append(initLog, InitStep(p, "import"))
          /\ loadPc' = [loadPc EXCEPT ![p] = "import"]
          /\ UNCHANGED loadResult
  /\ UNCHANGED << env, wasmModule, pc, call, config, native, compressed, outcome,
                  events, wasmBuild >>
  /\ UNCHANGED << discVars, lib, witVars >>

\* an initWasm that publishes the module as soon as it is imported
ImportSettlesPublishingEarly(p) ==
  /\ loadPc[p] = "import"
  /\ IF ~env.wasmBuilt
     THEN /\ initLog' = StepSettled(initLog, p, "failed")
          /\ InitFailed(p, "Cannot find module")
          /\ UNCHANGED wasmModule
     ELSE /\ wasmModule' = "loaded"
          /\ IF wasmBuild.hasDefault
             THEN /\ initLog' = Append(StepSettled(initLog, p, "ok"),
                                       InitStep(p, "default()"))
                  /\ loadPc' = [loadPc EXCEPT ![p] = "default"]
                  /\ UNCHANGED loadResult
             ELSE /\ initLog' = StepSettled(initLog, p, "ok")
                  /\ InitResolved(p)
  /\ UNCHANGED << env, pc, call, config, native, compressed, outcome, events,
                  loadCall, wasmBuild >>
  /\ UNCHANGED << discVars, lib, witVars >>

\* `await import(...)` settles; on success initWasm goes on to wasm.default()
\* or, without it, to its end
ImportSettles(p) ==
  /\ loadPc[p] = "import"
  /\ IF ~env.wasmBuilt
     THEN /\ initLog' = StepSettled(initLog, p, "failed")
          /\ InitFailed(p, "Cannot find module")
          /\ UNCHANGED wasmModule
     ELSE IF wasmBuild.hasDefault
     THEN /\ initLog' = Append(StepSettled(initLog, p, "ok"),
                               InitStep(p, "default()"))
          /\ loadPc' = [loadPc EXCEPT ![p] = "default"]
          /\ UNCHANGED << wasmModule, loadResult >>
     ELSE PanicHookAndAssign(p, StepSettled(initLog, p, "ok"))
  /\ UNCHANGED << env, pc, call, config, native, compressed, outcome, events,
                  loadCall, wasmBuild >>
  /\ UNCHANGED << discVars, lib, witVars >>

\* `await wasm.default()` settles
DefaultSettles(p) ==
  /\ loadPc[p] = "default"
  /\ \E ok \in BOOLEAN :
       IF ok
       THEN PanicHookAndAssign(p, StepSettled(initLog, p, "ok"))
       ELSE /\ initLog' = StepSettled(initLog, p, "failed")
            /\ InitFailed(p, "CompileError")
            /\ UNCHANGED wasmModule
  /\ UNCHANGED << env, pc, call, config, native, compressed, outcome, events,
                  loadCall, wasmBuild >>
  /\ UNCHANGED << discVars, lib, witVars >>

\* generateProofWasm or generateProofFromDecimalWasm after `await initWasm()`
GenerateAfterInit(p) ==
  /\ loadPc[p] = "generate"
  /\ \E r \in WasmProveOutcomes : CallModule(p, r)
  /\ UNCHANGED << env, wasmModule, pc, call, config, native, compressed, outcome,
                  events, loadCall, initLog, wasmBuild >>
  /\ UNCHANGED << discVars, lib, witVars >>

\* the caller has the settled promise
LoaderCallerContinues(p) ==
  /\ loadPc[p] = "done"
  /\ loadPc' = [loadPc EXCEPT ![p] = "idle"]
  /\ loadCall' = [loadCall EXCEPT ![p] = Nothing]
  /\ loadResult' = [loadResult EXCEPT ![p] = Pending]
  /\ UNCHANGED << env, wasmModule, pc, call, config, native, compressed, outcome,
                  events, initLog, wasmBuild >>
  /\ UNCHANGED << discVars, lib, witVars >>

InitLoader ==
  /\ env \in LoaderEnvs
  /\ PipeIdle
  /\ DiscIdle
  /\ lib = Nothing
  /\ WitIdle
  /\ loadPc = [p \in Procs |-> "idle"]
  /\ loadCall = [p \in Procs |-> Nothing]
  /\ loadResult = [p \in Procs |-> Pending]
  /\ initLog = << >>
  /\ wasmBuild \in WasmBuilds

NextLoader ==
  \E p \in Procs :
    \/ \E fn \in LoaderFns : CallLoader(p, fn)
    \/ ImportSettles(p)
    \/ DefaultSettles(p)
    \/ GenerateAfterInit(p)
    \/ LoaderCallerContinues(p)

SpecLoader == InitLoader /\ [][NextLoader]_vars

\* how many times an initialisation step has been run
TimesRun(step) == Cardinality({i \in 1..Len(initLog) : initLog[i].step = step})

\* C25: WASM initialisation is idempotent and happens only once: over any
\* sequence or interleaving of initWasm, generateProofWasm and
\* generateProofFromDecimalWasm calls, including calls started while an
\* earlier initialisation is still awaiting, the module import and the
\* default() and init_panic_hook() initialisers run at most once.
C25_InitialisedOnce ==
  \A step \in {"import", "default()", "init_panic_hook()"} : TimesRun(step) <= 1

\* the last sentence of C25, which the code does satisfy: a call made after
\* initialisation succeeded performs no initialisation work
C25_NoWorkOnceLoaded ==
  [][\A p \in Procs :
       (isWasmReady /\ loadPc[p] = "idle" /\ loadPc'[p] # "idle")
         => initLog' = initLog]_vars



\* some call ran every initialisation step of this build, each with success
EveryStepSucceeded ==
  \E i \in 1..Len(initLog) :
    /\ initLog[i].step = "import"
    /\ initLog[i].outcome = "ok"
    /\ wasmBuild.hasDefault =>
         \E j \in (i + 1)..Len(initLog) :
           initLog[j] = [by |-> initLog[i].by, step |-> "default()", outcome |-> "ok"]
    /\ wasmBuild.hasPanicHook =>
         \E j \in (i + 1)..Len(initLog) :
           initLog[j] = [by |-> initLog[i].by, step |-> "init_panic_hook()",
                         outcome |-> "ok"]

\* call p is inside initWasm
Initialising(p) == loadPc[p] \in {"import", "default"}

\* C30: a failed WASM initialisation leaves the loader state unchanged: when
\* the import or an initialiser throws, the call rejects with 'Failed to
\* initialize WASM module: <cause>' and the module handle is what it was (null,
\* isWasmReady() false, if no other call has set it); a later initWasm or
\* generateProofWasm call then attempts initialisation again; and the handle
\* is non-null only after every initialisation step succeeded.
C30_FailedInitLeavesLoaderUnchanged ==
  /\ [](isWasmReady => EveryStepSucceeded)
  /\ [][\A p \in Procs :
          /\ (Initialising(p) /\ loadResult'[p].kind = "thrown")
               => /\ wasmModule' = wasmModule
                  /\ loadResult'[p].name = "Error"
                  /\ loadResult'[p].message[1] = "Failed to initialize WASM module: "
          /\ (~isWasmReady /\ loadPc[p] = "idle" /\ loadPc'[p] # "idle")
               => /\ loadPc'[p] = "import"
                  /\ initLog' = Append(initLog, InitStep(p, "import"))]_vars

\* an initialisation failed, the module stayed unloaded, and a later call
\* imported it again and loaded it
C30_Witness ==
  /\ isWasmReady
  /\ \E i \in 1..Len(initLog) :
       /\ initLog[i].outcome = "failed"
       /\ \A k \in 1..i : initLog[k].by = initLog[i].by
       /\ \E j \in (i + 1)..Len(initLog) :
            initLog[j].step = "import" /\ initLog[j].outcome = "ok"



(***************************************************************************)
(* index.ts: isReady, in both revisions                                    *)
(***************************************************************************)

allCircuitTypes == << "unshield", "transfer", "disclosure" >>

\* Math.floor(Math.random() * allCircuitTypes.length)
RandomIndexes == 0..(Len(allCircuitTypes) - 1)

\* isReady of the WASM-witness revision: the compiled module, then the
\* proving key of a circuit picked at random
isReadyRandomCircuit(e, random) ==
  IF ~e.wasmBuilt THEN FALSE
  ELSE LET randomCircuitType == allCircuitTypes[random + 1]
           c == getCircuitConfigStatic(randomCircuitType)
       IN  existsSync(e.files, c.provingKeyPath)

\* isReady of the snarkjs revision: the Unshield circuit of the package; what
\* getCircuitConfig throws is caught
isReady(e) ==
  LET c == getCircuitConfigPackage("unshield", e)
  IN  IF ~c.ok THEN FALSE
      ELSE existsSync(e.files, c.val.wasmPath) /\ existsSync(e.files, c.val.zkeyPath)

\* the states of the file system: those of generateProof, and one with the
\* compiled module and the artifacts of some circuits only
ReadyEnvs ==
  EnvChoices \cup
  { [package |-> "@orbinum/circuits",
     files |-> {f \in AllIn("circuits") \cup AllIn("root") : f.circuit # "transfer"},
     wasmBuilt |-> TRUE] }

InitReady ==
  /\ env \in ReadyEnvs
  /\ PipeIdle
  /\ DiscIdle
  /\ lib = Nothing
  /\ WitIdle
  /\ LoadIdle

IsReadyRandomCircuit(random) ==
  /\ lib' = Called("isReady (random circuit)", [env |-> env, random |-> random],
                   Ok(isReadyRandomCircuit(env, random)), LastLookup)
  /\ UNCHANGED << pipeVars, discVars, witVars, loadVars >>

IsReady ==
  /\ lib' = Called("isReady", [env |-> env, random |-> 0], Ok(isReady(env)),
                   LastLookup)
  /\ UNCHANGED << pipeVars, discVars, witVars, loadVars >>

NextReady ==
  \/ \E random \in RandomIndexes : IsReadyRandomCircuit(random)
  \/ IsReady

SpecReady == InitReady /\ [][NextReady]_vars

\* lib is a call of isReady that follows a call of the same isReady
SameCheckRepeated ==
  /\ lib # Nothing
  /\ lib.fn \in {"isReady", "isReady (random circuit)"}
  /\ lib.prev # Nothing
  /\ lib.prev.fn = lib.fn

\* C26: isReady never throws and returns a consistent result on multiple
\* calls: for any fixed state of the file system, every call returns the same
\* boolean.
C26_IsReadyConsistent ==
  /\ (lib # Nothing /\ lib.fn \in {"isReady", "isReady (random circuit)"})
       => (lib.out.ok /\ lib.out.val \in BOOLEAN)
  /\ SameCheckRepeated => lib.out = lib.prev.out

\* C26 for the isReady that checks the Unshield circuit, where it holds
C26_UnshieldCheckConsistent ==
  (SameCheckRepeated /\ lib.fn = "isReady") => lib.out = lib.prev.out



(***************************************************************************)
(* generateDisclosureProof: delegation and what the call exposes           *)
(***************************************************************************)

\* how often the call has invoked generateProof
TimesDelegated ==
  Cardinality({i \in 1..Len(devents) : devents[i] = "generateProof"})

\* C27: generateDisclosureProof delegates exactly once to generateProof, with
\* circuit type Disclosure and the caller's options.provider, and returns the
\* proof and publicSignals of that result unchanged (same values, same order):
\* building revealedData never modifies them.
C27_DelegatesOnceAndForwards ==
  /\ TimesDelegated <= 1
  /\ dpc = "generateProof" =>
       /\ TimesDelegated = 1
       /\ dgenerate.circuitType = "disclosure"
       /\ dgenerate.inputs = dinputs
       /\ dgenerate.options.provider = dcall.options.provider
  /\ DisclosureReturned =>
       /\ TimesDelegated = 1
       /\ dgenerate.circuitType = "disclosure"
       /\ dgenerate.options.provider = dcall.options.provider
       /\ dresult.kind = "returned"
       /\ doutcome.value.proof = dresult.value.proof
       /\ doutcome.value.publicSignals = dresult.value.publicSignals

\* a call with a provider override has returned what generateProof gave it
C27_Witness ==
  /\ DisclosureReturned
  /\ dcall.options.provider = "fakeProvider"
  /\ dgenerate.options.provider = "fakeProvider"
  /\ doutcome.value.proof = MockProof
  /\ Len(doutcome.value.publicSignals) = 4



BaseNote ==
  [ value |-> BigOfInt(100), ownerPubkey |-> BigOfInt(1), blinding |-> BigOfInt(5),
    assetId |-> BigOfInt(7), commitment |-> BigOfInt(256) ]

\* notes over one commitment and one blinding: a note, and the same note with
\* another value, another asset id, or another owner
NoteVariants ==
  { BaseNote,
    [BaseNote EXCEPT !.value = MkBig(FALSE, Rep(255, 8))],
    [BaseNote EXCEPT !.assetId = BigZero],
    [BaseNote EXCEPT !.ownerPubkey = MkBig(FALSE, Rep(34, 32))] }

\* the four public inputs of the disclosure circuit, in signal order
PublicInputsOf(inputs) ==
  [i \in 1..4 |-> EntryOf(inputs, PublicInputNames("disclosure")[i])]

\* the caller has the settled promise; a call that returned what an echoing
\* prover gave it is remembered for comparison with the next
DisclosureCallerRemembers ==
  /\ dpc = "done"
  /\ lib' = IF DisclosureReturned /\ ProverEchoedInputs
            THEN Called("generateDisclosureProof",
                        [call |-> dcall, poseidon |-> dposeidon],
                        [publicInputs |-> PublicInputsOf(dgenerate.inputs),
                         revealedData |-> doutcome.value.revealedData],
                        Nothing)
            ELSE lib
  /\ dpc' = "idle"
  /\ dcall' = Nothing
  /\ dposeidon' = Nothing
  /\ dinputs' = Nothing
  /\ dresult' = Nothing
  /\ doutcome' = Pending
  /\ devents' = << >>
  /\ dgenerate' = Nothing
  /\ UNCHANGED << pipeVars, witVars, loadVars >>

NextDisclosurePair ==
  \/ \E note \in NoteVariants, mask \in Masks :
       GenerateDisclosureProof(note, mask, [provider |-> "undefined",
                                            verbose |-> "undefined"])
  \/ BuildCircuitInputs
  \/ DecodeRevealedData
  \/ DisclosureCallerRemembers

SpecDisclosurePair == InitDisclosure /\ [][NextDisclosurePair]_vars

\* the running call has called generateProof; it and the remembered call have
\* the same mask, commitment, blinding and hasher, and the same value of every field the mask discloses
DifferOnlyInUndisclosed ==
  /\ LibCalled("generateDisclosureProof")
  /\ dgenerate # Nothing
  /\ dposeidon = lib.in.poseidon
  /\ dcall.mask = lib.in.call.mask
  /\ dcall.commitment = lib.in.call.commitment
  /\ dcall.blinding = lib.in.call.blinding
  /\ dcall.mask.discloseValue => dcall.value = lib.in.call.value
  /\ dcall.mask.discloseAssetId => dcall.assetId = lib.in.call.assetId
  /\ dcall.mask.discloseOwner => dcall.ownerPubkey = lib.in.call.ownerPubkey

\* C28: undisclosed note fields do not influence what the disclosure call
\* exposes: for a fixed mask, commitment and prover that echoes its public
\* inputs, two calls that differ only in the values of fields whose mask flag
\* is false pass identical public inputs (commitment, revealed_value,
\* revealed_asset_id, revealed_owner_hash) and return identical revealedData.
C28_UndisclosedFieldsDoNotShow ==
  DifferOnlyInUndisclosed =>
    /\ PublicInputsOf(dgenerate.inputs) = lib.out.publicInputs
    /\ (DisclosureReturned /\ ProverEchoedInputs)
         => doutcome.value.revealedData = lib.out.revealedData

\* two calls disclosing the same value only, of notes with different asset ids
\* and owners, have both returned
C28_Witness ==
  /\ DifferOnlyInUndisclosed
  /\ DisclosureReturned
  /\ ProverEchoedInputs
  /\ dcall.mask = [discloseValue |-> TRUE, discloseAssetId |-> FALSE,
                   discloseOwner |-> FALSE]
  /\ dcall.assetId # lib.in.call.assetId
  /\ dcall.ownerPubkey # lib.in.call.ownerPubkey
  /\ dcall.value = lib.in.call.value
  /\ dposeidon = "sponge"



(***************************************************************************)
(* calculateWitness: the temporary file                                    *)
(***************************************************************************)

\* call p completes in this step
Completes(p) == InFlight(p) /\ wpc'[p] = "done"

\* C29: calculateWitness always cleans up: when a call completes, whether it
\* returns the witness or throws at the calculate or export step, the
\* temporary witness file at the path that call chose no longer exists.
C29_TemporaryFileRemoved ==
  [][\A p \in Procs :
       Completes(p) => /\ wresult'[p].kind \in {"returned", "thrown"}
                       /\ wtnsPath'[p] = wtnsPath[p]
                       /\ tmp'[wtnsPath[p]] = Nothing]_vars

\* a call has returned its witness, another has thrown, and the files at
\* their paths are gone
C29_Witness ==
  /\ wpc["call 1"] = "done"
  /\ wresult["call 1"].kind = "returned"
  /\ tmp[wtnsPath["call 1"]] = Nothing
  /\ wpc["call 2"] = "done"
  /\ wresult["call 2"].kind = "thrown"
  /\ tmp[wtnsPath["call 2"]] = Nothing


====
